---------------------------- MODULE Spec2Model ----------------------------
(***************************************************************************)
(* A model of the ULAX sync of the barbary-coast repository:               *)
(*   - the sync orchestrator `program` of the sync script (championship    *)
(*     fetch, season fan-out, archive backfill, merge with the persisted   *)
(*     snapshot, summaries, snapshot write), as a state machine over the   *)
(*     snapshot file and the position of one sync process;                 *)
(*   - the aggregator standingsFromSchedule, as an operator applied to     *)
(*     bounded lists of games.                                             *)
(* Strings that the code inspects with String.includes are sequences of    *)
(* tokens, and includes is the contiguous-subsequence test on them.        *)
(***************************************************************************)
EXTENDS Integers, Sequences, FiniteSets, TLC

VARIABLES
    \* ---- the environment of the sync script
    file,           \* content of data/ulax.json
    web,            \* what the upstream site currently publishes
    currentSeason,  \* getCurrentSeason() of the host clock
    currentYear,    \* getCurrentYear() of the host clock
    \* ---- one sync process (`program`)
    pc,             \* position of the process
    currentOnly,    \* args.includes("--current-only")
    withArchives,   \* args.includes("--with-archives")
    championships,  \* const championships
    seasons,        \* const seasons (an object: entries in insertion order)
    archNext,       \* fetchArchiveSeasons: index of the next unit
    archResults,    \* fetchArchiveSeasons: results of the units, in input order
    allData,        \* const allData
    \* ---- history of the runs (not read by the program)
    runs,           \* number of sync processes started so far
    steps,          \* the steps of the current run, in the order they happened
    fileAtStart,    \* the file as the current run found it
    fresh,          \* the season entries the current run produced itself
    inputs,         \* the responses the current run got
    fatal,          \* the step that ended the current run in failure
    prev,           \* the previous run, when it completed
    \* ---- standingsFromSchedule applied to a list of games
    schedule,       \* the games received so far
    derived,        \* standingsFromSchedule(schedule)
    \* ---- one fetcher of lib/ulax applied to one response
    input,          \* what the site answered
    output,         \* what the fetcher made of it
    \* ---- one Effect.all with concurrency 3
    fanOut,         \* which fan-out, and how each unit's request ends
    unit,           \* the state of every unit
    joined,         \* the result of the join, once it has one
    finishOrder     \* the units in the order they ended

vars == << file, web, currentSeason, currentYear, pc, currentOnly, withArchives,
           championships, seasons, archNext, archResults, allData,
           runs, steps, fileAtStart, fresh, inputs, fatal, prev, schedule,
           derived, input, output, fanOut, unit, joined, finishOrder >>

syncVars == << file, web, currentSeason, currentYear, pc, currentOnly,
               withArchives, championships, seasons, archNext, archResults,
               allData, runs, steps, fileAtStart, fresh, inputs, fatal,
               prev >>

standingsVars == << schedule, derived >>

fetcherVars == << input, output >>

poolVars == << fanOut, unit, joined, finishOrder >>

-----------------------------------------------------------------------------
(* Bounds of the model *)

\* sync processes started in one behaviour
MaxRuns == 2

\* games in a list given to standingsFromSchedule
MaxGames == 3

\* the longest array the schedule API answers with
MaxBatch == 3

\* the most tables on a page
MaxTables == 3

-----------------------------------------------------------------------------
(* Values *)

\* a score that is not known (JavaScript null)
NULL == -1

\* JavaScript's null and undefined for values that are not scores
None == [kind |-> "none"]

IsPrefixAt(hay, needle, i) ==
    \A j \in 1..Len(needle) : hay[i + j - 1] = needle[j]

\* String.prototype.includes on token sequences
Includes(hay, needle) ==
    \E i \in 1..(Len(hay) - Len(needle) + 1) : IsPrefixAt(hay, needle, i)

BARBARY_COAST == << "Barbary", "Coast" >>

SEASONS == << "winter", "spring", "summer" >>

BC_ARCHIVE_SEASONS ==
    << [season |-> "spring", year |-> 2022],
       [season |-> "spring", year |-> 2023],
       [season |-> "spring", year |-> 2024],
       [season |-> "summer", year |-> 2024],
       [season |-> "winter", year |-> 2025],
       [season |-> "spring", year |-> 2025],
       [season |-> "summer", year |-> 2025] >>

\* the decimal digits of a year, as one token
YearText(year) ==
    CASE year = 2022 -> "2022"
      [] year = 2023 -> "2023"
      [] year = 2024 -> "2024"
      [] year = 2025 -> "2025"
      [] year = 2026 -> "2026"

\* `${season}-${year}`
SeasonKey(season, year) == << season, "-", YearText(year) >>

getCurrentSeason(month) ==
    IF month >= 0 /\ month <= 2 THEN "winter"
    ELSE IF month >= 3 /\ month <= 5 THEN "spring"
    ELSE "summer"

-----------------------------------------------------------------------------
(* standingsFromSchedule *)

Game(away, awayScore, home, homeScore) ==
    [awayTeam |-> away, awayScore |-> awayScore,
     homeTeam |-> home, homeScore |-> homeScore]

NewStanding(team) ==
    [team |-> team, gp |-> 0, w |-> 0, l |-> 0, t |-> 0, pts |-> 0,
     gf |-> 0, ga |-> 0]

\* teams.has(team), the Map kept as the sequence of its values in insertion order
HasTeam(teams, team) == \E i \in 1..Len(teams) : teams[i].team = team

TeamIndex(teams, team) == CHOOSE i \in 1..Len(teams) : teams[i].team = team

\* the inner loop with three points for a win
UpdateSideThreeForWin(teams, team, gf, ga) ==
    LET ts == IF HasTeam(teams, team) THEN teams
              ELSE Append(teams, NewStanding(team))
        i  == TeamIndex(ts, team)
        s1 == [ts[i] EXCEPT !.gp = @ + 1, !.gf = @ + gf, !.ga = @ + ga]
        s2 == IF gf > ga THEN [s1 EXCEPT !.w = @ + 1, !.pts = @ + 3]
              ELSE IF gf < ga THEN [s1 EXCEPT !.l = @ + 1]
              ELSE [s1 EXCEPT !.t = @ + 1, !.pts = @ + 1]
    IN  [ts EXCEPT ![i] = s2]

\* the body of the inner loop, for one side of a completed game
UpdateSide(teams, team, gf, ga) ==
    LET ts == IF HasTeam(teams, team) THEN teams
              ELSE Append(teams, NewStanding(team))
        i  == TeamIndex(ts, team)
        s1 == [ts[i] EXCEPT !.gp = @ + 1, !.gf = @ + gf, !.ga = @ + ga]
        s2 == IF gf > ga THEN [s1 EXCEPT !.w = @ + 1, !.pts = @ + 2]
              ELSE IF gf < ga THEN [s1 EXCEPT !.l = @ + 1]
              ELSE [s1 EXCEPT !.t = @ + 1, !.pts = @ + 1]
    IN  [ts EXCEPT ![i] = s2]

\* a game processed without the null test: null counts as 0 in arithmetic
ProcessGameNoNullTest(teams, g) ==
    LET a == IF g.awayScore = NULL THEN 0 ELSE g.awayScore
        h == IF g.homeScore = NULL THEN 0 ELSE g.homeScore
    IN  UpdateSide(UpdateSide(teams, g.awayTeam, a, h), g.homeTeam, h, a)

\* a game processed with the home side given the away side's goals
ProcessGameHomeAsAway(teams, g) ==
    IF g.awayScore = NULL \/ g.homeScore = NULL THEN teams
    ELSE UpdateSide(UpdateSide(teams, g.awayTeam, g.awayScore, g.homeScore),
                    g.homeTeam, g.awayScore, g.homeScore)

\* the body of the outer loop, for one game
ProcessGame(teams, g) ==
    IF g.awayScore = NULL \/ g.homeScore = NULL THEN teams
    ELSE UpdateSide(UpdateSide(teams, g.awayTeam, g.awayScore, g.homeScore),
                    g.homeTeam, g.homeScore, g.awayScore)

RECURSIVE Tally(_, _)
Tally(games, teams) ==
    IF games = << >> THEN teams
    ELSE Tally(Tail(games), ProcessGame(teams, Head(games)))

\* the comparator without its second operand: points only
CompareByPointsOnly(a, b) == b.pts - a.pts

\* the comparator of the sort: negative or zero keeps a before b
CompareStandings(a, b) ==
    IF b.pts - a.pts # 0 THEN b.pts - a.pts
    ELSE (b.gf - b.ga) - (a.gf - a.ga)

\* one row put into a sorted list, after the rows it does not precede
RECURSIVE InsertSorted(_, _)
InsertSorted(sorted, row) ==
    IF sorted = << >> THEN << row >>
    ELSE IF CompareStandings(Head(sorted), row) <= 0
         THEN << Head(sorted) >> \o InsertSorted(Tail(sorted), row)
         ELSE << row >> \o sorted

\* Array.prototype.sort with the comparator: a stable sort
RECURSIVE SortStandings(_)
SortStandings(rows) ==
    IF rows = << >> THEN << >>
    ELSE InsertSorted(SortStandings(SubSeq(rows, 1, Len(rows) - 1)),
                      rows[Len(rows)])

standingsFromSchedule(games) == SortStandings(Tally(games, << >>))

-----------------------------------------------------------------------------
(* The data of a snapshot *)

Standing(team, gp, w, l, t, pts, gf, ga) ==
    [team |-> team, gp |-> gp, w |-> w, l |-> l, t |-> t, pts |-> pts,
     gf |-> gf, ga |-> ga]

\* UlaxSeasonData
SeasonData(sched, standings, playerStats, goalieStats, roster) ==
    [schedule |-> sched, standings |-> standings, playerStats |-> playerStats,
     goalieStats |-> goalieStats, roster |-> roster]

\* UlaxChampionship
Championship(year, season, champion) ==
    [year |-> year, season |-> season, division |-> "Men's Field",
     champion |-> champion]

\* A JavaScript object with string keys that are not array indices: its
\* entries, in insertion order.
HasKey(obj, key) == \E i \in 1..Len(obj) : obj[i].key = key

KeyIndex(obj, key) == CHOOSE i \in 1..Len(obj) : obj[i].key = key

KeysOf(obj) == { obj[i].key : i \in 1..Len(obj) }

Lookup(obj, key) == obj[KeyIndex(obj, key)].data

\* obj[key] = data: a new key goes last, a known key keeps its place
PutEntry(obj, key, data) ==
    IF HasKey(obj, key)
    THEN [obj EXCEPT ![KeyIndex(obj, key)] = [key |-> key, data |-> data]]
    ELSE Append(obj, [key |-> key, data |-> data])

\* Object.assign(target, source)
RECURSIVE ObjectAssign(_, _)
ObjectAssign(target, source) ==
    IF source = << >> THEN target
    ELSE ObjectAssign(PutEntry(target, Head(source).key, Head(source).data),
                      Tail(source))

-----------------------------------------------------------------------------
(* What the upstream site publishes: two states of it *)

OLYMPIC_CLUB == << "Olympic", "Club" >>

Seasons == { SEASONS[i] : i \in 1..Len(SEASONS) }

ArchiveUnits == 1..Len(BC_ARCHIVE_SEASONS)

EmptySeason == SeasonData(<< >>, << >>, << >>, << >>, << >>)

\* the site early in a winter season: spring has nothing published, the
\* summer page has games and no standings table, one archive has no games
WebEarly ==
    [ championships |-> << Championship(2025, "summer", BARBARY_COAST) >>,
      season |->
        [ s \in Seasons |->
            CASE s = "winter" ->
                   SeasonData(
                     << Game(BARBARY_COAST, 2, OLYMPIC_CLUB, 1),
                        Game(OLYMPIC_CLUB, NULL, BARBARY_COAST, NULL) >>,
                     << Standing(BARBARY_COAST, 1, 1, 0, 0, 2, 2, 1),
                        Standing(OLYMPIC_CLUB, 1, 0, 1, 0, 0, 1, 2) >>,
                     << "skater" >>, << "goalie" >>, << "player" >>)
              [] s = "spring" -> EmptySeason
              [] s = "summer" ->
                   SeasonData(<< Game(OLYMPIC_CLUB, 3, BARBARY_COAST, 3) >>,
                              << >>, << >>, << >>, << "player" >>) ],
      archive |->
        [ u \in ArchiveUnits |->
            IF u = 1 THEN << >>
            ELSE IF u % 2 = 0
                 THEN << Game(BARBARY_COAST, 1, OLYMPIC_CLUB, 0) >>
                 ELSE << Game(OLYMPIC_CLUB, 2, BARBARY_COAST, 2),
                         Game(BARBARY_COAST, 0, OLYMPIC_CLUB, 1) >> ] ]

\* the site later on: the second winter game is played, spring is published,
\* a new title is listed
WebLater ==
    [ championships |-> << Championship(2025, "summer", BARBARY_COAST),
                           Championship(2026, "winter", OLYMPIC_CLUB) >>,
      season |->
        [ s \in Seasons |->
            CASE s = "winter" ->
                   SeasonData(
                     << Game(BARBARY_COAST, 2, OLYMPIC_CLUB, 1),
                        Game(OLYMPIC_CLUB, 0, BARBARY_COAST, 1) >>,
                     << Standing(BARBARY_COAST, 2, 2, 0, 0, 4, 3, 1),
                        Standing(OLYMPIC_CLUB, 2, 0, 2, 0, 0, 1, 3) >>,
                     << "skater" >>, << "goalie" >>, << "player" >>)
              [] s = "spring" ->
                   SeasonData(
                     << Game(BARBARY_COAST, NULL, OLYMPIC_CLUB, NULL) >>,
                     << Standing(OLYMPIC_CLUB, 0, 0, 0, 0, 0, 0, 0),
                        Standing(BARBARY_COAST, 0, 0, 0, 0, 0, 0, 0) >>,
                     << >>, << >>, << "player" >>)
              [] s = "summer" -> WebEarly.season[s] ],
      archive |-> WebEarly.archive ]

Webs == { WebEarly, WebLater }

\* the years the host clock may show
Years == { 2025, 2026 }

\* how one HTTP request ends: a response, a failure, or no answer at all
Responses == { "ok", "fail", "hang" }

-----------------------------------------------------------------------------
(* The club's summaries *)

\* data.standings.find((s) => s.team.includes(BARBARY_COAST)), as an index (0: none)
FindClubRow(standings) ==
    IF \E i \in 1..Len(standings) : Includes(standings[i].team, BARBARY_COAST)
    THEN CHOOSE i \in 1..Len(standings) :
            /\ Includes(standings[i].team, BARBARY_COAST)
            /\ \A j \in 1..(i - 1) : ~Includes(standings[j].team, BARBARY_COAST)
    ELSE 0

\* the summary with the record looked at before the titles
SummaryRecordFirst(seasonKey, data, champs) ==
    LET i == FindClubRow(data.standings)
        bc == data.standings[i]
        isChampion ==
            \E k \in 1..Len(champs) :
                /\ Includes(champs[k].champion, BARBARY_COAST)
                /\ Includes(seasonKey, << champs[k].season >>)
        result == IF bc.w > bc.l THEN "Playoffs"
                  ELSE IF isChampion THEN "Champions"
                  ELSE "Regular Season"
    IN  IF i = 0 THEN None
        ELSE [season |-> seasonKey, wins |-> bc.w, losses |-> bc.l,
              ties |-> bc.t, goalsFor |-> bc.gf, goalsAgainst |-> bc.ga,
              result |-> result, isChampion |-> isChampion]

computeBarbaryCoastSummary(seasonKey, data, champs) ==
    LET i == FindClubRow(data.standings)
        bc == data.standings[i]
        isChampion ==
            \E k \in 1..Len(champs) :
                /\ Includes(champs[k].champion, BARBARY_COAST)
                /\ Includes(seasonKey, << champs[k].season >>)
        result == IF isChampion THEN "Champions"
                  ELSE IF bc.w > bc.l THEN "Playoffs"
                  ELSE "Regular Season"
    IN  IF i = 0 THEN None
        ELSE [season |-> seasonKey, wins |-> bc.w, losses |-> bc.l,
              ties |-> bc.t, goalsFor |-> bc.gf, goalsAgainst |-> bc.ga,
              result |-> result, isChampion |-> isChampion]

\* the loop of `program` that fills bcSeasons
RECURSIVE SummariesOf(_, _)
SummariesOf(entries, champs) ==
    IF entries = << >> THEN << >>
    ELSE LET e == Head(entries)
             summary == computeBarbaryCoastSummary(e.key, e.data, champs)
         IN  (IF summary = None THEN << >> ELSE << summary >>)
                \o SummariesOf(Tail(entries), champs)

ZeroAllTime ==
    [wins |-> 0, losses |-> 0, ties |-> 0, titles |-> 0, goalsFor |-> 0,
     goalsAgainst |-> 0]

\* the reducer with a title counted for every season
RECURSIVE ReduceTitleEverySeason(_, _)
ReduceTitleEverySeason(acc, summaries) ==
    IF summaries = << >> THEN acc
    ELSE LET s == Head(summaries)
         IN  ReduceTitleEverySeason(
                [wins |-> acc.wins + s.wins,
                 losses |-> acc.losses + s.losses,
                 ties |-> acc.ties + s.ties,
                 titles |-> acc.titles + 1,
                 goalsFor |-> acc.goalsFor + s.goalsFor,
                 goalsAgainst |-> acc.goalsAgainst + s.goalsAgainst],
                Tail(summaries))

RECURSIVE ReduceAllTime(_, _)
ReduceAllTime(acc, summaries) ==
    IF summaries = << >> THEN acc
    ELSE LET s == Head(summaries)
         IN  ReduceAllTime(
                [wins |-> acc.wins + s.wins,
                 losses |-> acc.losses + s.losses,
                 ties |-> acc.ties + s.ties,
                 titles |-> acc.titles + (IF s.isChampion THEN 1 ELSE 0),
                 goalsFor |-> acc.goalsFor + s.goalsFor,
                 goalsAgainst |-> acc.goalsAgainst + s.goalsAgainst],
                Tail(summaries))

computeAllTimeStats(summaries) == ReduceAllTime(ZeroAllTime, summaries)

\* the object literal allData of `program`; the clock reading of fetchedAt is
\* the number of the run
BuildAllData(season, year, entries, champs, now) ==
    LET bcSeasons == SummariesOf(entries, champs)
    IN  [currentSeason |-> season, currentYear |-> year, seasons |-> entries,
         championships |-> champs,
         barbaryCoast |-> [allTime |-> computeAllTimeStats(bcSeasons),
                           seasons |-> bcSeasons],
         fetchedAt |-> now]

-----------------------------------------------------------------------------
(* The fetches of the sync script *)

\* the fetchers a season is made of, in the order of the Effect.all
SEASON_FETCHERS == << "schedule", "standings", "stats", "roster" >>

\* what fetcher k returns for a season of the site w when its request succeeds
SeasonPart(w, season, k) ==
    CASE k = 1 -> w.season[season].schedule
      [] k = 2 -> w.season[season].standings
      [] k = 3 -> [players |-> w.season[season].playerStats,
                   goalies |-> w.season[season].goalieStats]
      [] k = 4 -> w.season[season].roster

\* the first request that did not succeed, 0 when there is none
FirstNotOk(rs) ==
    IF \E k \in 1..Len(rs) : rs[k] # "ok"
    THEN CHOOSE k \in 1..Len(rs) :
            rs[k] # "ok" /\ \A j \in 1..(k - 1) : rs[j] = "ok"
    ELSE 0

\* a season put together with each failed fetcher counted as an empty answer
makeFetchSeasonOptionalParts(w, season, rs) ==
    IF \E k \in 1..Len(rs) : rs[k] = "hang" THEN [tag |-> "hang"]
    ELSE IF Len(rs) < Len(SEASON_FETCHERS) THEN [tag |-> "running"]
    ELSE [tag |-> "ok",
          value |->
            SeasonData(
              IF rs[1] = "ok" THEN SeasonPart(w, season, 1) ELSE << >>,
              IF rs[2] = "ok" THEN SeasonPart(w, season, 2) ELSE << >>,
              IF rs[3] = "ok" THEN SeasonPart(w, season, 3).players ELSE << >>,
              IF rs[3] = "ok" THEN SeasonPart(w, season, 3).goalies ELSE << >>,
              IF rs[4] = "ok" THEN SeasonPart(w, season, 4) ELSE << >>)]

\* fetchSeason(season) against the site w, rs[k] being how the request of
\* fetcher k ended, for the fetchers that have been run so far. The
\* Effect.all runs them one after the other and stops at the first failure.
makeFetchSeason(w, season, rs) ==
    IF FirstNotOk(rs) # 0 THEN [tag |-> rs[FirstNotOk(rs)]]
    ELSE IF Len(rs) < Len(SEASON_FETCHERS) THEN [tag |-> "running"]
    ELSE [tag |-> "ok",
          value |-> SeasonData(SeasonPart(w, season, 1), SeasonPart(w, season, 2),
                               SeasonPart(w, season, 3).players,
                               SeasonPart(w, season, 3).goalies,
                               SeasonPart(w, season, 4))]

\* fetchSeason(season) against the site w, its requests ending as r
fetchSeason(w, season, r) ==
    makeFetchSeason(w, season, [k \in 1..Len(SEASON_FETCHERS) |-> r])

\* what a unit of fetchAllSeasons makes of the Option of its fetchSeason
SeasonUnitOf(result, season, year) ==
    IF /\ result.tag = "ok"
       /\ (Len(result.value.schedule) > 0 \/ Len(result.value.standings) > 0)
    THEN [key |-> SeasonKey(season, year), data |-> result.value]
    ELSE None

\* one unit of fetchAllSeasons: the entry it returns, or None for null
SeasonUnit(w, season, year, r) ==
    SeasonUnitOf(fetchSeason(w, season, r), season, year)

\* the loop of fetchAllSeasons over the results of the units
RECURSIVE CollectSeasons(_, _)
CollectSeasons(results, acc) ==
    IF results = << >> THEN acc
    ELSE CollectSeasons(Tail(results),
                        IF Head(results) = None THEN acc
                        ELSE PutEntry(acc, Head(results).key, Head(results).data))

\* fetchAllSeasons once every unit has ended, rs[i] the end of unit i
fetchAllSeasons(w, year, rs) ==
    CollectSeasons([i \in 1..Len(SEASONS) |-> SeasonUnit(w, SEASONS[i], year, rs[i])],
                   << >>)

\* fetchCurrentSeasonOnly(season) once its fetch has succeeded
fetchCurrentSeasonOnly(w, season, year) ==
    << [key |-> SeasonKey(season, year),
        data |-> fetchSeason(w, season, "ok").value] >>

\* fetchArchiveSchedule(season, year) of unit u, its request ending as r
fetchArchiveSchedule(w, u, r) ==
    IF r = "ok" THEN [tag |-> "ok", value |-> w.archive[u]] ELSE [tag |-> r]

\* one unit of fetchArchiveSeasons once its schedule has arrived
ArchiveUnit(u, sched) ==
    [key |-> SeasonKey(BC_ARCHIVE_SEASONS[u].season, BC_ARCHIVE_SEASONS[u].year),
     data |-> SeasonData(sched, standingsFromSchedule(sched), << >>, << >>, << >>)]

\* the loop of fetchArchiveSeasons over the results of the units
RECURSIVE CollectArchives(_, _)
CollectArchives(results, acc) ==
    IF results = << >> THEN acc
    ELSE CollectArchives(Tail(results),
                         PutEntry(acc, Head(results).key, Head(results).data))

\* the script without the copy-forward loop: what was fetched is all there is
MergeNothing(entries, existing) == entries

\* the copy-forward loop without its `in` test: the cached entry replaces the
\* one just fetched
MergeCachedOverFetched(entries, existing) == ObjectAssign(entries, existing)

\* the copy-forward loop of `program` over Object.entries(existing.seasons)
RECURSIVE MergeExisting(_, _)
MergeExisting(entries, existing) ==
    IF existing = << >> THEN entries
    ELSE MergeExisting(
            IF HasKey(entries, Head(existing).key) THEN entries
            ELSE PutEntry(entries, Head(existing).key, Head(existing).data),
            Tail(existing))

-----------------------------------------------------------------------------
(* The snapshot file *)

NoFile == [kind |-> "absent"]

\* what a reader finds while writeFileString is under way, or after a write
\* that did not finish: a proper prefix of the new text
PartialFile == [kind |-> "partial"]

\* `${JSON.stringify(data, null, 2)}\n`: the snapshot holds numbers, strings,
\* null, arrays and objects with non-index keys only, which the text keeps
\* with their order
JSONText(data) == [kind |-> "json", value |-> data]

\* readFileString followed by JSON.parse: the value, None when the file cannot
\* be read, "throws" when the text is not JSON
ReadJSON(f) ==
    IF f.kind = "absent" THEN [tag |-> "unreadable"]
    ELSE IF f.kind = "json" THEN [tag |-> "ok", value |-> f.value]
    ELSE [tag |-> "throws"]

-----------------------------------------------------------------------------
(* The sync process: `program` *)

NoPrev == [valid |-> FALSE]

\* no fetcher and no fan-out is under study
FetcherIdle == input = None /\ output = None

PoolIdle ==
    /\ fanOut = None
    /\ unit = << >>
    /\ joined = None
    /\ finishOrder = << >>

Ended == pc \in { "idle", "done", "failed" }

Record(r) == [inputs EXCEPT !.responses = Append(@, r)]

\* the snapshot a full sync of the 2025 summer left behind
OlderSnapshot ==
    BuildAllData("summer", 2025,
                 fetchAllSeasons(WebEarly, 2025, [i \in 1..Len(SEASONS) |-> "ok"]),
                 WebEarly.championships, 0)

SyncInit ==
    /\ file \in { NoFile, JSONText(OlderSnapshot) }
    /\ pc = "idle"
    /\ currentOnly = FALSE
    /\ withArchives = FALSE
    /\ championships = << >>
    /\ seasons = << >>
    /\ archNext = 1
    /\ archResults = << >>
    /\ allData = None
    /\ runs = 0
    /\ steps = << >>
    /\ fileAtStart = file
    /\ fresh = << >>
    /\ inputs = [web |-> web, responses |-> << >>]
    /\ fatal = "none"
    /\ prev = NoPrev

\* the script is started: the flags are read, a new process begins
StartProgram ==
    /\ Ended
    /\ runs < MaxRuns
    /\ \E co \in BOOLEAN, wa \in BOOLEAN :
          /\ currentOnly' = co
          /\ withArchives' = wa
    /\ pc' = "fetchArchives"
    /\ runs' = runs + 1
    /\ championships' = << >>
    /\ seasons' = << >>
    /\ archNext' = 1
    /\ archResults' = << >>
    /\ allData' = None
    /\ steps' = << >>
    /\ fileAtStart' = file
    /\ fresh' = << >>
    /\ inputs' = [web |-> web, responses |-> << >>]
    /\ fatal' = "none"
    /\ prev' = IF pc = "done"
               THEN [valid |-> TRUE, currentOnly |-> currentOnly,
                     withArchives |-> withArchives, inputs |-> inputs,
                     allData |-> allData]
               ELSE NoPrev
    /\ UNCHANGED << file, web, currentSeason, currentYear, standingsVars,
                    fetcherVars, poolVars >>

\* const championships = yield* fetchArchives()
FetchArchives ==
    /\ pc = "fetchArchives"
    /\ \E r \in Responses :
          /\ inputs' = Record(r)
          /\ IF r = "ok"
             THEN /\ championships' = web.championships
                  /\ pc' = "fetchSeasons"
                  /\ steps' = Append(steps, "championships")
             ELSE /\ championships' = championships
                  /\ pc' = IF r = "fail" THEN "failed" ELSE "hung"
                  /\ steps' = steps
          /\ fatal' = IF r = "fail" THEN "championships" ELSE fatal
    /\ UNCHANGED << file, web, currentSeason, currentYear, currentOnly,
                    withArchives, seasons, archNext, archResults, allData,
                    runs, fileAtStart, fresh, prev, standingsVars,
                    fetcherVars, poolVars >>

\* the branch on withArchives with its else arm left out
AfterSeasonsWithoutMerge ==
    IF withArchives THEN "fetchArchiveSeasons" ELSE "summaries"

AfterSeasons == IF withArchives THEN "fetchArchiveSeasons" ELSE "loadExisting"

\* fetchCurrentSeasonOnly with its failure turned into an empty result
FetchCurrentSeasonOnlyOptional ==
    /\ pc = "fetchSeasons"
    /\ currentOnly
    /\ steps' = Append(steps, "seasons")
    /\ \E r \in Responses :
          /\ inputs' = Record(r)
          /\ seasons' = IF r = "ok"
                        THEN fetchCurrentSeasonOnly(web, currentSeason, currentYear)
                        ELSE << >>
          /\ pc' = IF r = "hang" THEN "hung" ELSE AfterSeasons
    /\ fresh' = seasons'
    /\ UNCHANGED << file, web, currentSeason, currentYear, currentOnly,
                    withArchives, championships, archNext, archResults,
                    allData, runs, fileAtStart, fatal, prev, standingsVars,
                    fetcherVars, poolVars >>

\* yield* fetchCurrentSeasonOnly(currentSeason)
FetchCurrentSeasonOnly ==
    /\ pc = "fetchSeasons"
    /\ currentOnly
    /\ steps' = Append(steps, "seasons")
    /\ \E r \in Responses :
          /\ inputs' = Record(r)
          /\ IF r = "ok"
             THEN /\ seasons' = fetchCurrentSeasonOnly(web, currentSeason, currentYear)
                  /\ pc' = AfterSeasons
             ELSE /\ seasons' = seasons
                  /\ pc' = IF r = "fail" THEN "failed" ELSE "hung"
          /\ fatal' = IF r = "fail" THEN "seasons" ELSE fatal
    /\ fresh' = seasons'
    /\ UNCHANGED << file, web, currentSeason, currentYear, currentOnly,
                    withArchives, championships, archNext, archResults,
                    allData, runs, fileAtStart, prev, standingsVars,
                    fetcherVars, poolVars >>

\* fetchAllSeasons without Effect.option around fetchSeason: the first failure
\* fails the join
FetchAllSeasonsFailFast ==
    /\ pc = "fetchSeasons"
    /\ ~currentOnly
    /\ steps' = Append(steps, "seasons")
    /\ \E rs \in [1..Len(SEASONS) -> Responses] :
          /\ inputs' = Record(rs)
          /\ IF \E i \in 1..Len(SEASONS) : rs[i] = "fail"
             THEN /\ seasons' = seasons
                  /\ pc' = "failed"
                  /\ fatal' = "seasons"
             ELSE IF \E i \in 1..Len(SEASONS) : rs[i] = "hang"
             THEN /\ seasons' = seasons
                  /\ pc' = "hung"
                  /\ fatal' = fatal
             ELSE /\ seasons' = fetchAllSeasons(web, currentYear, rs)
                  /\ pc' = AfterSeasons
                  /\ fatal' = fatal
    /\ fresh' = seasons'
    /\ UNCHANGED << file, web, currentSeason, currentYear, currentOnly,
                    withArchives, championships, archNext, archResults,
                    allData, runs, fileAtStart, prev, standingsVars,
                    fetcherVars, poolVars >>

\* yield* fetchAllSeasons: the three units run at once, each failure is turned
\* into null by Effect.option, and the join waits for every unit
FetchAllSeasons ==
    /\ pc = "fetchSeasons"
    /\ ~currentOnly
    /\ steps' = Append(steps, "seasons")
    /\ \E rs \in [1..Len(SEASONS) -> Responses] :
          /\ inputs' = Record(rs)
          /\ IF \E i \in 1..Len(SEASONS) : rs[i] = "hang"
             THEN /\ seasons' = seasons
                  /\ pc' = "hung"
             ELSE /\ seasons' = fetchAllSeasons(web, currentYear, rs)
                  /\ pc' = AfterSeasons
    /\ fresh' = seasons'
    /\ UNCHANGED << file, web, currentSeason, currentYear, currentOnly,
                    withArchives, championships, archNext, archResults,
                    allData, runs, fileAtStart, fatal, prev, standingsVars,
                    fetcherVars, poolVars >>

\* one unit of fetchArchiveSeasons. The units are started in input order, at
\* most three at a time, and their results are kept in input order, so
\* the units are taken one after the other here. A unit that fails fails the
\* whole Effect.all; a unit whose request never answers is never joined.
FetchArchiveUnit ==
    /\ pc = "fetchArchiveSeasons"
    /\ archNext <= Len(BC_ARCHIVE_SEASONS)
    /\ steps' = IF archNext = 1 THEN Append(steps, "archives") ELSE steps
    /\ \E r \in Responses :
          LET got == fetchArchiveSchedule(web, archNext, r)
          IN  /\ inputs' = Record(r)
              /\ archNext' = archNext + 1
              /\ archResults' = IF got.tag = "ok"
                                THEN Append(archResults,
                                            ArchiveUnit(archNext, got.value))
                                ELSE archResults
              /\ pc' = CASE got.tag = "ok" -> pc
                         [] got.tag = "fail" -> "failed"
                         [] got.tag = "hang" -> "hung"
              /\ fatal' = IF got.tag = "fail" THEN "archives" ELSE fatal
    /\ UNCHANGED << file, web, currentSeason, currentYear, currentOnly,
                    withArchives, championships, seasons, allData, runs,
                    fileAtStart, fresh, prev, standingsVars, fetcherVars,
                    poolVars >>

\* every archive unit has ended: Object.assign(seasons, archiveSeasons)
AssignArchives ==
    /\ pc = "fetchArchiveSeasons"
    /\ archNext > Len(BC_ARCHIVE_SEASONS)
    /\ seasons' = ObjectAssign(seasons, CollectArchives(archResults, << >>))
    /\ fresh' = seasons'
    /\ pc' = "summaries"
    /\ UNCHANGED << file, web, currentSeason, currentYear, currentOnly,
                    withArchives, championships, archNext, archResults,
                    allData, runs, steps, fileAtStart, inputs, fatal, prev,
                    standingsVars, fetcherVars, poolVars >>

\* const existing = yield* loadExistingData, and the copy-forward loop; a
\* JSON.parse that throws inside Effect.gen is a defect, which Effect.option
\* does not catch
LoadExisting ==
    /\ pc = "loadExisting"
    /\ LET existing == ReadJSON(file)
       IN  /\ seasons' = IF existing.tag = "ok"
                         THEN MergeExisting(seasons, existing.value.seasons)
                         ELSE seasons
           /\ pc' = IF existing.tag = "throws" THEN "failed" ELSE "summaries"
           /\ fatal' = IF existing.tag = "throws" THEN "existing" ELSE fatal
           /\ steps' = IF existing.tag = "throws" THEN steps
                       ELSE Append(steps, "merge")
    /\ UNCHANGED << file, web, currentSeason, currentYear, currentOnly,
                    withArchives, championships, archNext, archResults,
                    allData, runs, fileAtStart, fresh, inputs, prev,
                    standingsVars, fetcherVars, poolVars >>

\* the all-time totals added to those of the snapshot on disk
ComputeSummariesOnTopOfFile ==
    /\ pc = "summaries"
    /\ allData' =
          LET computed == BuildAllData(currentSeason, currentYear, seasons,
                                       championships, runs)
              before == IF file.kind = "json"
                        THEN file.value.barbaryCoast.allTime
                        ELSE ZeroAllTime
          IN  [computed EXCEPT
                 !.barbaryCoast.allTime =
                    ReduceAllTime(before, computed.barbaryCoast.seasons)]
    /\ steps' = Append(steps, "summaries")
    /\ pc' = "writeData"
    /\ UNCHANGED << file, web, currentSeason, currentYear, currentOnly,
                    withArchives, championships, seasons, archNext,
                    archResults, runs, fileAtStart, fresh, inputs, fatal,
                    prev, standingsVars, fetcherVars, poolVars >>

\* bcSeasons and allData
ComputeSummaries ==
    /\ pc = "summaries"
    /\ allData' = BuildAllData(currentSeason, currentYear, seasons,
                               championships, runs)
    /\ steps' = Append(steps, "summaries")
    /\ pc' = "writeData"
    /\ UNCHANGED << file, web, currentSeason, currentYear, currentOnly,
                    withArchives, championships, seasons, archNext,
                    archResults, runs, fileAtStart, fresh, inputs, fatal,
                    prev, standingsVars, fetcherVars, poolVars >>

\* writeData: fs.writeFileString opens the file itself, which truncates it
WriteBegins ==
    /\ pc = "writeData"
    /\ file' = PartialFile
    /\ steps' = Append(steps, "write")
    /\ pc' = "writing"
    /\ UNCHANGED << web, currentSeason, currentYear, currentOnly,
                    withArchives, championships, seasons, archNext,
                    archResults, allData, runs, fileAtStart, fresh, inputs,
                    fatal, prev, standingsVars, fetcherVars, poolVars >>

\* the whole text has been written
WriteEnds ==
    /\ pc = "writing"
    /\ file' = JSONText(allData)
    /\ pc' = "done"
    /\ UNCHANGED << web, currentSeason, currentYear, currentOnly,
                    withArchives, championships, seasons, archNext,
                    archResults, allData, runs, steps, fileAtStart, fresh,
                    inputs, fatal, prev, standingsVars, fetcherVars, poolVars
                    >>

\* the write fails or the process is killed before the text is complete
WriteFails ==
    /\ pc = "writing"
    /\ pc' = "failed"
    /\ fatal' = "write"
    /\ UNCHANGED << file, web, currentSeason, currentYear, currentOnly,
                    withArchives, championships, seasons, archNext,
                    archResults, allData, runs, steps, fileAtStart, fresh,
                    inputs, prev, standingsVars, fetcherVars, poolVars >>

\* between two runs the site moves on
UpstreamChanges ==
    /\ Ended
    /\ web = WebEarly
    /\ web' = WebLater
    /\ UNCHANGED << file, currentSeason, currentYear, pc, currentOnly,
                    withArchives, championships, seasons, archNext,
                    archResults, allData, runs, steps, fileAtStart, fresh,
                    inputs, fatal, prev, standingsVars, fetcherVars, poolVars
                    >>

Init ==
    /\ web \in Webs
    /\ \E month \in 0..11 : currentSeason = getCurrentSeason(month)
    /\ currentYear \in Years
    /\ SyncInit
    /\ schedule = << >>
    /\ derived = << >>
    /\ FetcherIdle
    /\ PoolIdle

Next ==
    \/ StartProgram
    \/ FetchArchives
    \/ FetchCurrentSeasonOnly
    \/ FetchAllSeasons
    \/ FetchArchiveUnit
    \/ AssignArchives
    \/ LoadExisting
    \/ ComputeSummaries
    \/ WriteBegins
    \/ WriteEnds
    \/ WriteFails
    \/ UpstreamChanges

Spec == Init /\ [][Next]_vars

-----------------------------------------------------------------------------
(* standingsFromSchedule applied to every list of at most MaxGames games *)

\* two clubs; a record may name the same club on both sides
StandingTeams == { "A", "B" }

\* a score is unknown or a number of goals
ScoreValues == { NULL, 0, 1 }

GameSet ==
    { Game(a, as, h, hs) : a \in StandingTeams, as \in ScoreValues,
                           h \in StandingTeams, hs \in ScoreValues }

StandingsInit ==
    /\ web = WebEarly
    /\ currentSeason = "winter"
    /\ currentYear = 2026
    /\ SyncInit
    /\ file = NoFile
    /\ schedule = << >>
    /\ derived = << >>
    /\ FetcherIdle
    /\ PoolIdle

\* one more game arrives and the standings are derived again
ReceiveGame ==
    /\ Len(schedule) < MaxGames
    /\ \E g \in GameSet : schedule' = Append(schedule, g)
    /\ derived' = standingsFromSchedule(schedule')
    /\ UNCHANGED << syncVars, fetcherVars, poolVars >>

StandingsNext == ReceiveGame

SpecStandings == StandingsInit /\ [][StandingsNext]_vars

-----------------------------------------------------------------------------
(* standingsFromSchedule applied to the played games of a league of three *)

LeagueTeams == { "A", "B", "C" }

\* who visits whom
LeagueFixtures == { << "A", "B" >>, << "C", "A" >>, << "B", "C" >> }

GoalValues == { 0, 1, 2 }

LeagueGameSet ==
    { Game(f[1], as, f[2], hs) : f \in LeagueFixtures, as \in GoalValues,
                                 hs \in GoalValues }

\* one more played game arrives and the standings are derived again
ReceiveLeagueGame ==
    /\ Len(schedule) < MaxGames
    /\ \E g \in LeagueGameSet : schedule' = Append(schedule, g)
    /\ derived' = standingsFromSchedule(schedule')
    /\ UNCHANGED << syncVars, fetcherVars, poolVars >>

LeagueNext == ReceiveLeagueGame

SpecLeague == StandingsInit /\ [][LeagueNext]_vars

-----------------------------------------------------------------------------
(* fetchSchedule: the schedule API's JSON decoded record by record *)

\* JSON values
Num(n) == [t |-> "number", v |-> n]

\* a string, as its tokens; the empty string has none
Str(tokens) == [t |-> "string", v |-> tokens]

JNull == [t |-> "null"]

\* ScoreSchema accepts a number, null or the empty string
ScoreAccepts(val) ==
    \/ val.t = "number"
    \/ val.t = "null"
    \/ (val.t = "string" /\ val.v = << >>)

\* the number keeps its value, with the empty string read as the number 0
ScoreDecodeAsNumber(val) == IF val.t = "number" THEN val.v ELSE 0

\* decode: (val) => (val === "" ? null : val)
ScoreDecode(val) == IF val.t = "number" THEN val.v ELSE NULL

\* Schema.decodeUnknownEither(UlaxGameRaw)(item), for the fields kept here
DecodeGameRaw(item) ==
    IF /\ item.id.t = "number"
       /\ item.awayteam.t = "string"
       /\ item.hometeam.t = "string"
       /\ ScoreAccepts(item.awayscore)
       /\ ScoreAccepts(item.homescore)
    THEN [tag |-> "Right",
          right |-> [id |-> item.id.v,
                     awayteam |-> item.awayteam.v,
                     awayscore |-> ScoreDecode(item.awayscore),
                     hometeam |-> item.hometeam.v,
                     homescore |-> ScoreDecode(item.homescore)]]
    ELSE [tag |-> "Left"]

\* String.prototype.trim on tokens, white space being the token " "
RECURSIVE TrimStart(_)
TrimStart(tokens) ==
    IF tokens # << >> /\ Head(tokens) = " " THEN TrimStart(Tail(tokens))
    ELSE tokens

RECURSIVE TrimEnd(_)
TrimEnd(tokens) ==
    IF tokens # << >> /\ tokens[Len(tokens)] = " "
    THEN TrimEnd(SubSeq(tokens, 1, Len(tokens) - 1))
    ELSE tokens

Trim(tokens) == TrimEnd(TrimStart(tokens))

\* transformGame, without the date, time, field and type of the game
transformGame(raw) ==
    LET isBarbaryCoast ==
            \/ Includes(raw.hometeam, BARBARY_COAST)
            \/ Includes(raw.awayteam, BARBARY_COAST)
    IN  [id |-> raw.id,
         awayTeam |-> Trim(raw.awayteam),
         awayScore |-> raw.awayscore,
         homeTeam |-> Trim(raw.hometeam),
         homeScore |-> raw.homescore,
         isBarbaryCoast |-> isBarbaryCoast,
         barbaryCoastIsHome |->
            IF ~isBarbaryCoast THEN "null"
            ELSE IF Includes(raw.hometeam, BARBARY_COAST) THEN "true"
            ELSE "false"]

\* the loop of fetchSchedule with the first invalid record ending the batch
RECURSIVE DecodeUntilInvalid(_, _)
DecodeUntilInvalid(items, acc) ==
    IF items = << >> THEN acc
    ELSE LET parsed == DecodeGameRaw(Head(items))
         IN  IF parsed.tag = "Right"
             THEN DecodeUntilInvalid(
                     Tail(items),
                     [acc EXCEPT !.games = Append(@, transformGame(parsed.right))])
             ELSE [acc EXCEPT !.errorCount = @ + 1,
                              !.warnings = Append(@, [item |-> Head(items)])]

\* the loop of fetchSchedule over the items of the array
RECURSIVE DecodeItems(_, _)
DecodeItems(items, acc) ==
    IF items = << >> THEN acc
    ELSE LET parsed == DecodeGameRaw(Head(items))
         IN  DecodeItems(
                Tail(items),
                IF parsed.tag = "Right"
                THEN [acc EXCEPT !.games = Append(@, transformGame(parsed.right))]
                ELSE [acc EXCEPT !.errorCount = @ + 1,
                                 !.warnings = Append(@, [item |-> Head(items)])])

\* what fetchSchedule makes of the response: the games, and what it logs
makeFetchSchedule(response) ==
    IF response.kind # "array" THEN [tag |-> "fail", warnings |-> << >>]
    ELSE LET done == DecodeItems(response.items,
                                 [games |-> << >>, errorCount |-> 0,
                                  warnings |-> << >>])
         IN  [tag |-> "ok", games |-> done.games,
              warnings |->
                 IF done.errorCount > 0
                 THEN Append(done.warnings,
                             [failed |-> done.errorCount,
                              of |-> Len(response.items)])
                 ELSE done.warnings]

PADDED_CLUB == << " ", "Barbary", "Coast", " " >>

RawScores == { Num(2), JNull, Str(<< >>), Str(<< "3" >>) }

RawIds == { Num(7), Str(<< "7" >>) }

RawItems ==
    { [id |-> id, awayteam |-> Str(PADDED_CLUB), awayscore |-> as,
       hometeam |-> Str(OLYMPIC_CLUB), homescore |-> hs] :
        id \in RawIds, as \in RawScores, hs \in RawScores }

ArrayResponse(items) == [kind |-> "array", items |-> items]

ObjectResponse == [kind |-> "object"]

ScheduleInit ==
    /\ web = WebEarly
    /\ currentSeason = "winter"
    /\ currentYear = 2026
    /\ SyncInit
    /\ file = NoFile
    /\ schedule = << >>
    /\ derived = << >>
    /\ PoolIdle
    /\ input = ArrayResponse(<< >>)
    /\ output = makeFetchSchedule(input)

\* the API answers with one more record
AnswerOneMore ==
    /\ input.kind = "array"
    /\ Len(input.items) < MaxBatch
    /\ \E item \in RawItems :
          input' = ArrayResponse(Append(input.items, item))
    /\ output' = makeFetchSchedule(input')
    /\ UNCHANGED << syncVars, standingsVars, poolVars >>

\* the API answers with JSON that is not an array
AnswerNoArray ==
    /\ input = ArrayResponse(<< >>)
    /\ input' = ObjectResponse
    /\ output' = makeFetchSchedule(input')
    /\ UNCHANGED << syncVars, standingsVars, poolVars >>

ScheduleNext == AnswerOneMore \/ AnswerNoArray

SpecSchedule == ScheduleInit /\ [][ScheduleNext]_vars

-----------------------------------------------------------------------------
(* fetchStandings: the standings page searched for its table *)

\* a table element: the texts of its th cells and its body rows, a row
\* being the texts of its td cells; a text is tokens, or the digits of a number
HtmlTable(th, rows) == [th |-> th, rows |-> rows]

\* $(table).find("th").map((_, th) => $(th).text().trim()).get()
RECURSIVE HeadersOf(_)
HeadersOf(th) ==
    IF th = << >> THEN << >>
    ELSE << Trim(Head(th)) >> \o HeadersOf(Tail(th))

\* headers.includes(h)
ArrayIncludes(array, h) == \E i \in 1..Len(array) : array[i] = h

\* requiredHeaders.every((h) => headers.includes(h))
HasEveryHeader(table, requiredHeaders) ==
    \A i \in 1..Len(requiredHeaders) :
        ArrayIncludes(HeadersOf(table.th), requiredHeaders[i])

\* the each() loop without its break: the last match is kept
RECURSIVE FindLastFrom(_, _, _, _)
FindLastFrom(tables, requiredHeaders, i, found) ==
    IF i > Len(tables) THEN found
    ELSE FindLastFrom(tables, requiredHeaders, i + 1,
                      IF HasEveryHeader(tables[i], requiredHeaders) THEN i
                      ELSE found)

FindLastTableWithHeaders(tables, requiredHeaders) ==
    FindLastFrom(tables, requiredHeaders, 1, 0)

\* the each() loop from table i on: the index of the table found, 0 for null
RECURSIVE FindFrom(_, _, _)
FindFrom(tables, requiredHeaders, i) ==
    IF i > Len(tables) THEN 0
    ELSE IF HasEveryHeader(tables[i], requiredHeaders) THEN i
    ELSE FindFrom(tables, requiredHeaders, i + 1)

\* findTableWithHeaders($, requiredHeaders), $("table") being `tables`
findTableWithHeaders(tables, requiredHeaders) ==
    FindFrom(tables, requiredHeaders, 1)

\* Number.parseInt(text, 10) || 0
ParseIntOrZero(cell) == IF cell.t = "number" THEN cell.v ELSE 0

CellText(cell) == IF cell.t = "string" THEN Trim(cell.v) ELSE << cell.v >>

\* the rows of the table found, as standings
RECURSIVE StandingRows(_)
StandingRows(rows) ==
    IF rows = << >> THEN << >>
    ELSE LET cells == Head(rows)
         IN  (IF Len(cells) >= 8 /\ CellText(cells[1]) # << >>
              THEN << Standing(CellText(cells[1]), ParseIntOrZero(cells[2]),
                               ParseIntOrZero(cells[3]), ParseIntOrZero(cells[4]),
                               ParseIntOrZero(cells[5]), ParseIntOrZero(cells[6]),
                               ParseIntOrZero(cells[7]), ParseIntOrZero(cells[8])) >>
              ELSE << >>)
             \o StandingRows(Tail(rows))

STANDINGS_HEADERS == << << "GP" >>, << "W" >>, << "L" >> >>

\* fetchStandings once the page has arrived
makeFetchStandings(tables) ==
    LET table == findTableWithHeaders(tables, STANDINGS_HEADERS)
    IN  IF table # 0 THEN StandingRows(tables[table].rows) ELSE << >>

ClubRow ==
    << Str(PADDED_CLUB), Num(1), Num(1), Num(0), Num(0), Num(2), Num(2), Num(1) >>

RivalRow ==
    << Str(OLYMPIC_CLUB), Num(1), Num(0), Num(1), Str(<< "-" >>), Num(0), Num(1),
       Num(2) >>

\* a second row of the club, as of a table that lists two divisions
ClubSecondRow ==
    << Str(BARBARY_COAST), Num(2), Num(0), Num(2), Num(0), Num(0), Num(1), Num(5) >>

\* the tables a page is made of: one without the L column, one with every
\* column in another order among others, one without th cells, the plain
\* one, one whose column reads GPA, one that lists a team twice
TableShapes ==
    { HtmlTable(<< << "Team" >>, << "GP" >>, << "W" >> >>, << ClubRow >>),
      HtmlTable(<< << "Team" >>, << "GP" >>, << "W" >>, << "L" >> >>,
                << ClubRow, RivalRow, ClubSecondRow >>),
      HtmlTable(<< << "L" >>, << " ", "W", " " >>, << "Team" >>, << "GP" >>,
                   << "PTS" >> >>,
                << ClubRow, << Str(<< "Totals" >>), Num(2) >>, RivalRow >>),
      HtmlTable(<< >>, << RivalRow >>),
      HtmlTable(<< << "GP" >>, << "W" >>, << "L" >> >>,
                << << Str(<< " " >>), Num(0), Num(0), Num(0), Num(0), Num(0),
                      Num(0), Num(0) >>, RivalRow >>),
      HtmlTable(<< << "GPA" >>, << "W" >>, << "L" >> >>, << ClubRow >>) }

StandingsPage(tables) ==
    [tables |-> tables,
     table |-> findTableWithHeaders(tables, STANDINGS_HEADERS),
     standings |-> makeFetchStandings(tables)]

TablesInit ==
    /\ web = WebEarly
    /\ currentSeason = "winter"
    /\ currentYear = 2026
    /\ SyncInit
    /\ file = NoFile
    /\ schedule = << >>
    /\ derived = << >>
    /\ PoolIdle
    /\ input = << >>
    /\ output = StandingsPage(input)

\* the page has one more table
PageHasOneMoreTable ==
    /\ Len(input) < MaxTables
    /\ \E table \in TableShapes : input' = Append(input, table)
    /\ output' = StandingsPage(input')
    /\ UNCHANGED << syncVars, standingsVars, poolVars >>

TablesNext == PageHasOneMoreTable

SpecTables == TablesInit /\ [][TablesNext]_vars

-----------------------------------------------------------------------------
(* fetchSeason: one unit of fetchAllSeasons, fetcher by fetcher *)

\* the unit after the requests answered so far: the result of fetchSeason and
\* what the unit returns, once it has returned
SeasonProgress(season, rs) ==
    LET result == makeFetchSeason(web, season, rs)
    IN  [result |-> result,
         unit |-> IF result.tag \in { "running", "hang" }
                  THEN [kind |-> "pending"]
                  ELSE SeasonUnitOf(result, season, currentYear)]

SeasonInit ==
    /\ web \in Webs
    /\ currentSeason = "winter"
    /\ currentYear \in Years
    /\ SyncInit
    /\ file = NoFile
    /\ schedule = << >>
    /\ derived = << >>
    /\ PoolIdle
    /\ \E season \in Seasons : input = [season |-> season, responses |-> << >>]
    /\ output = SeasonProgress(input.season, input.responses)

\* the request of the next fetcher of the season ends
FetcherAnswers ==
    /\ output.result.tag = "running"
    /\ \E r \in Responses :
          input' = [input EXCEPT !.responses = Append(@, r)]
    /\ output' = SeasonProgress(input'.season, input'.responses)
    /\ UNCHANGED << syncVars, standingsVars, poolVars >>

SeasonNext == FetcherAnswers

SpecSeason == SeasonInit /\ [][SeasonNext]_vars

-----------------------------------------------------------------------------
(* Effect.all(units, { concurrency: 3 }): the two fan-outs of the script *)

\* { concurrency: 3 }
CONCURRENCY == 3

Units == 1..Len(fanOut.outcomes)

WithState(state) == { u \in Units : unit[u].state = state }

\* what unit u returns when its request succeeds or, in the season fan-out
\* where Effect.option catches the failure, fails
UnitResult(u) ==
    IF fanOut.kind = "seasons"
    THEN SeasonUnit(web, SEASONS[u], currentYear, fanOut.outcomes[u])
    ELSE ArchiveUnit(u, fetchArchiveSchedule(web, u, "ok").value)

\* the results taken in the order the units ended
ResultsInFinishOrder ==
    [i \in 1..Len(finishOrder) |-> unit[finishOrder[i]].result]

\* the array Effect.all returns: the results by index of the unit
ResultsInInputOrder == [u \in Units |-> unit[u].result]

\* the loop over the results that fills the seasons object
CollectResults ==
    IF fanOut.kind = "seasons" THEN CollectSeasons(ResultsInInputOrder, << >>)
    ELSE CollectArchives(ResultsInInputOrder, << >>)

\* how the requests of the archive pairs end: at most one of them not well
ArchiveOutcomes ==
    { rs \in [ArchiveUnits -> Responses] :
        Cardinality({ u \in ArchiveUnits : rs[u] # "ok" }) <= 1 }

FanOutInit ==
    /\ web = WebEarly
    /\ currentSeason = "winter"
    /\ currentYear = 2026
    /\ SyncInit
    /\ file = NoFile
    /\ schedule = << >>
    /\ derived = << >>
    /\ FetcherIdle
    /\ \/ \E rs \in [1..Len(SEASONS) -> Responses] :
             fanOut = [kind |-> "seasons", outcomes |-> rs]
       \/ \E rs \in ArchiveOutcomes :
             fanOut = [kind |-> "archives", outcomes |-> rs]
    /\ unit = [u \in Units |-> [state |-> "pending", result |-> None]]
    /\ joined = None
    /\ finishOrder = << >>

\* a free worker takes the next unit of the list
StartUnit ==
    /\ joined = None
    /\ Cardinality(WithState("running")) < CONCURRENCY
    /\ WithState("pending") # { }
    /\ LET u == CHOOSE v \in WithState("pending") :
                    \A x \in WithState("pending") : v <= x
       IN  unit' = [unit EXCEPT ![u].state = "running"]
    /\ UNCHANGED << syncVars, standingsVars, fetcherVars, fanOut, joined,
                    finishOrder >>

\* a running unit returns its result
UnitEnds ==
    /\ joined = None
    /\ \E u \in WithState("running") :
          /\ fanOut.outcomes[u] # "hang"
          /\ fanOut.kind = "archives" => fanOut.outcomes[u] = "ok"
          /\ unit' = [unit EXCEPT ![u] = [state |-> "done",
                                           result |-> UnitResult(u)]]
          /\ finishOrder' = Append(finishOrder, u)
    /\ UNCHANGED << syncVars, standingsVars, fetcherVars, fanOut, joined >>

\* a running archive unit fails: the units still running are interrupted, the
\* others are not started and the Effect.all fails
UnitFails ==
    /\ joined = None
    /\ fanOut.kind = "archives"
    /\ \E u \in WithState("running") :
          /\ fanOut.outcomes[u] = "fail"
          /\ unit' = [v \in Units |->
                        IF v = u THEN [unit[v] EXCEPT !.state = "failed"]
                        ELSE IF unit[v].state = "running"
                        THEN [unit[v] EXCEPT !.state = "interrupted"]
                        ELSE unit[v]]
          /\ finishOrder' = Append(finishOrder, u)
    /\ joined' = [tag |-> "fail"]
    /\ UNCHANGED << syncVars, standingsVars, fetcherVars, fanOut >>

\* every unit has returned: the results are collected
Join ==
    /\ joined = None
    /\ WithState("done") = Units
    /\ joined' = [tag |-> "ok", seasons |-> CollectResults]
    /\ UNCHANGED << syncVars, standingsVars, fetcherVars, fanOut, unit,
                    finishOrder >>

FanOutNext == StartUnit \/ UnitEnds \/ UnitFails \/ Join

SpecFanOut == FanOutInit /\ [][FanOutNext]_vars

-----------------------------------------------------------------------------
(* The HTML fetchers: a page searched for the structure it should hold *)

\* the longest archives page, in elements
MaxElements == 3

\* extractTeamFromImage on a page without team logo images: `src` is ""
extractTeamFromImage == << >>

\* Number.parseFloat(text) || 0, the cells holding whole numbers
ParseFloatOrZero(cell) == IF cell.t = "number" THEN cell.v ELSE 0

PLAYER_HEADERS == << << "GP" >>, << "G" >>, << "A" >>, << "PTS" >> >>

GOALIE_HEADERS == << << "W" >>, << "L" >>, << "GA" >>, << "SV" >> >>

ROSTER_HEADERS == << << "Position" >>, << "Height" >> >>

IsPlayerTable(table) ==
    /\ HasEveryHeader(table, PLAYER_HEADERS)
    /\ ~ArrayIncludes(HeadersOf(table.th), << "W" >>)

IsGoalieTable(table) == HasEveryHeader(table, GOALIE_HEADERS)

IsRosterTable(table) == HasEveryHeader(table, ROSTER_HEADERS)

\* the rows of a player stats table
RECURSIVE PlayerRows(_)
PlayerRows(rows) ==
    IF rows = << >> THEN << >>
    ELSE LET cells == Head(rows)
         IN  (IF Len(cells) >= 6 /\ CellText(cells[1]) # << >>
              THEN << [name |-> CellText(cells[1]),
                       number |-> CellText(cells[2]),
                       team |-> extractTeamFromImage,
                       gp |-> ParseIntOrZero(cells[3]),
                       goals |-> ParseIntOrZero(cells[4]),
                       assists |-> ParseIntOrZero(cells[5]),
                       points |-> ParseIntOrZero(cells[6])] >>
              ELSE << >>)
             \o PlayerRows(Tail(rows))

\* the rows of a goalie stats table
RECURSIVE GoalieRows(_)
GoalieRows(rows) ==
    IF rows = << >> THEN << >>
    ELSE LET cells == Head(rows)
         IN  (IF Len(cells) >= 7 /\ CellText(cells[1]) # << >>
              THEN << [name |-> CellText(cells[1]),
                       number |-> CellText(cells[2]),
                       team |-> extractTeamFromImage,
                       wins |-> ParseIntOrZero(cells[3]),
                       losses |-> ParseIntOrZero(cells[4]),
                       goalsAgainst |-> ParseIntOrZero(cells[5]),
                       saves |-> ParseIntOrZero(cells[6]),
                       savePercentage |-> ParseFloatOrZero(cells[7])] >>
              ELSE << >>)
             \o GoalieRows(Tail(rows))

RECURSIVE PlayersOf(_)
PlayersOf(tables) ==
    IF tables = << >> THEN << >>
    ELSE (IF IsPlayerTable(Head(tables)) THEN PlayerRows(Head(tables).rows)
          ELSE << >>)
         \o PlayersOf(Tail(tables))

RECURSIVE GoaliesOf(_)
GoaliesOf(tables) ==
    IF tables = << >> THEN << >>
    ELSE (IF IsGoalieTable(Head(tables)) THEN GoalieRows(Head(tables).rows)
          ELSE << >>)
         \o GoaliesOf(Tail(tables))

\* fetchStats once the page has arrived, $("table") being `tables`
makeFetchStats(tables) ==
    [players |-> PlayersOf(tables), goalies |-> GoaliesOf(tables)]

CAPTAIN_MARKS == { "(C)", "(A)" }

\* nameCell.replace(/\s*\([CA]\)\s*/g, "")
RECURSIVE StripMarks(_)
StripMarks(tokens) ==
    IF tokens = << >> THEN << >>
    ELSE LET rest == TrimStart(tokens)
         IN  IF rest # << >> /\ Head(rest) \in CAPTAIN_MARKS
             THEN StripMarks(TrimStart(Tail(rest)))
             ELSE << Head(tokens) >> \o StripMarks(Tail(tokens))

\* the rows of a roster table, the cells without .captain and .assistant
\* elements
RECURSIVE RosterRows(_)
RosterRows(rows) ==
    IF rows = << >> THEN << >>
    ELSE LET cells == Head(rows)
             nameCell == CellText(cells[1])
             name == Trim(StripMarks(nameCell))
         IN  (IF Len(cells) >= 7 /\ name # << >>
              THEN << [name |-> name,
                       number |-> CellText(cells[2]),
                       position |-> CellText(cells[3]),
                       height |-> CellText(cells[4]),
                       weight |-> CellText(cells[5]),
                       age |-> CellText(cells[6]),
                       homeTown |-> CellText(cells[7]),
                       team |-> extractTeamFromImage,
                       isCaptain |-> Includes(nameCell, << "(C)" >>),
                       isAssistantCaptain |-> Includes(nameCell, << "(A)" >>)] >>
              ELSE << >>)
             \o RosterRows(Tail(rows))

\* fetchRoster once the page has arrived
RECURSIVE makeFetchRoster(_)
makeFetchRoster(tables) ==
    IF tables = << >> THEN << >>
    ELSE (IF IsRosterTable(Head(tables)) THEN RosterRows(Head(tables).rows)
          ELSE << >>)
         \o makeFetchRoster(Tail(tables))

\* an element of the archives page, the elements being siblings: its tag
\* and its text, in tokens without line breaks
ArchElement(tag, text) == [tag |-> tag, text |-> text]

\* $("h3, h4, strong")
HEADING_TAGS == { "h3", "h4", "strong" }

LowerToken(token) ==
    CASE token = "Winter" -> "winter"
      [] token = "Spring" -> "spring"
      [] token = "Summer" -> "summer"
      [] OTHER -> token

\* String.prototype.toLowerCase
ToLowerCase(tokens) == [i \in 1..Len(tokens) |-> LowerToken(tokens[i])]

ArchiveYears == { BC_ARCHIVE_SEASONS[i].year : i \in 1..Len(BC_ARCHIVE_SEASONS) }

\* \d{4}
IsYear(token) == \E y \in ArchiveYears : YearText(y) = token

\* Number.parseInt(match[1], 10)
ParseYear(token) == CHOOSE y \in ArchiveYears : YearText(y) = token

\* [:\s-]
IsSeparator(token) == token \in { ":", " ", "-" }

\* the last token of the run of separators that begins at token i
RECURSIVE SeparatorsEnd(_, _)
SeparatorsEnd(tokens, i) ==
    IF i < Len(tokens) /\ IsSeparator(tokens[i + 1])
    THEN SeparatorsEnd(tokens, i + 1)
    ELSE i

\* /(\d{4})[:\s-]+(.+)/ matches at token i: a year, a separator and at least
\* one more token, the last separator of a run that ends the line being
\* given back to (.+)
LineMatchesAt(line, i) ==
    /\ IsYear(line[i])
    /\ i + 2 <= Len(line)
    /\ IsSeparator(line[i + 1])

\* line.match(/(\d{4})[:\s-]+(.+)/): where the match begins, 0 for null
LineMatch(line) ==
    IF \E i \in 1..Len(line) : LineMatchesAt(line, i)
    THEN CHOOSE i \in 1..Len(line) :
            /\ LineMatchesAt(line, i)
            /\ \A j \in 1..(i - 1) : ~LineMatchesAt(line, j)
    ELSE 0

\* match[2] of the match that begins at token i
LineChampion(line, i) ==
    LET e == SeparatorsEnd(line, i + 1)
    IN  IF e < Len(line) THEN SubSeq(line, e + 1, Len(line))
        ELSE << line[Len(line)] >>

\* $(header).nextAll().each(...) from element k on
RECURSIVE LinesAfter(_, _, _)
LinesAfter(elements, k, season) ==
    IF k > Len(elements) THEN << >>
    ELSE LET line == Trim(elements[k].text)
             i == LineMatch(line)
         IN  (IF i # 0
              THEN << Championship(ParseYear(line[i]), season,
                                   Trim(LineChampion(line, i))) >>
              ELSE << >>)
             \o LinesAfter(elements, k + 1, season)

\* $("h3, h4, strong").each(...) from element h on, for one season
RECURSIVE HeadersFrom(_, _, _)
HeadersFrom(elements, h, season) ==
    IF h > Len(elements) THEN << >>
    ELSE (IF /\ elements[h].tag \in HEADING_TAGS
             /\ Includes(ToLowerCase(elements[h].text), << season >>)
          THEN LinesAfter(elements, h + 1, season)
          ELSE << >>)
         \o HeadersFrom(elements, h + 1, season)

\* the loop over the seasons, from season s on
RECURSIVE ChampionsUnderHeaders(_, _)
ChampionsUnderHeaders(elements, s) ==
    IF s > Len(SEASONS) THEN << >>
    ELSE HeadersFrom(elements, 1, SEASONS[s])
         \o ChampionsUnderHeaders(elements, s + 1)

\* $("body").text()
RECURSIVE PageText(_)
PageText(elements) ==
    IF elements = << >> THEN << >>
    ELSE Head(elements).text \o PageText(Tail(elements))

IsSeasonWord(token) ==
    \E s \in 1..Len(SEASONS) : LowerToken(token) = SEASONS[s]

\* the first token from i on that satisfies the test, Len(tokens) + 1 when
\* there is none
FirstFrom(tokens, i, Test(_)) ==
    LET passing == { k \in i..Len(tokens) : Test(tokens[k]) }
    IN  IF passing = { } THEN Len(tokens) + 1
        ELSE CHOOSE k \in passing : \A j \in passing : k <= j

\* sectionMatch[1]: what follows the first mention of the season and its
\* colons and spaces, up to the next mention of a season or the end of the
\* text; None when the season is not mentioned
SectionOf(text, season) ==
    LET IsSeason(token) == LowerToken(token) = season
        NotColonOrSpace(token) == token \notin { ":", " " }
        at == FirstFrom(text, 1, IsSeason)
        from == FirstFrom(text, at + 1, NotColonOrSpace)
        to == FirstFrom(text, from, IsSeasonWord)
    IN  IF at > Len(text) THEN None
        ELSE [tokens |-> SubSeq(text, from, to - 1)]

\* [^,\n]
NotComma(token) == token # ","

\* /(\d{4})[:\s-]+([^,\n]+)/ matches at token i of the section
YearMatchesAt(section, i) ==
    /\ IsYear(section[i])
    /\ i + 1 <= Len(section)
    /\ IsSeparator(section[i + 1])
    /\ LET e == SeparatorsEnd(section, i + 1)
       IN  \/ e < Len(section) /\ NotComma(section[e + 1])
           \/ e > i + 1

\* where match[2] of the match at token i begins and where it ends
YearChampionSpan(section, i) ==
    LET e == SeparatorsEnd(section, i + 1)
        IsComma(token) == token = ","
    IN  IF e < Len(section) /\ NotComma(section[e + 1])
        THEN [first |-> e + 1, last |-> FirstFrom(section, e + 1, IsComma) - 1]
        ELSE [first |-> e, last |-> e]

\* sectionMatch[1].matchAll(/(\d{4})[:\s-]+([^,\n]+)/g) from token i on
RECURSIVE YearMatches(_, _, _)
YearMatches(section, i, season) ==
    IF i > Len(section) THEN << >>
    ELSE IF YearMatchesAt(section, i)
    THEN LET span == YearChampionSpan(section, i)
         IN  << Championship(ParseYear(section[i]), season,
                             Trim(SubSeq(section, span.first, span.last))) >>
             \o YearMatches(section, span.last + 1, season)
    ELSE YearMatches(section, i + 1, season)

\* the fallback over the text of the page, from season s on
RECURSIVE ChampionsInText(_, _)
ChampionsInText(text, s) ==
    IF s > Len(SEASONS) THEN << >>
    ELSE (IF SectionOf(text, SEASONS[s]) # None
          THEN YearMatches(SectionOf(text, SEASONS[s]).tokens, 1, SEASONS[s])
          ELSE << >>)
         \o ChampionsInText(text, s + 1)

\* both strategies run, whatever the first one found
makeFetchArchivesBothStrategies(elements) ==
    ChampionsUnderHeaders(elements, 1) \o ChampionsInText(PageText(elements), 1)

\* fetchArchives once the page has arrived
makeFetchArchives(elements) ==
    LET underHeaders == ChampionsUnderHeaders(elements, 1)
    IN  IF Len(underHeaders) = 0 THEN ChampionsInText(PageText(elements), 1)
        ELSE underHeaders

\* the fetcher of the standings with a page without the table as a failure
fetchStandingsMissFails(tables) ==
    IF findTableWithHeaders(tables, STANDINGS_HEADERS) = 0 THEN [tag |-> "fail"]
    ELSE [tag |-> "ok", value |-> makeFetchStandings(tables)]

\* the Effects of the service, once the response has arrived: none of them
\* fails on what the page holds
fetchStandings(tables) == [tag |-> "ok", value |-> makeFetchStandings(tables)]

fetchStats(tables) == [tag |-> "ok", value |-> makeFetchStats(tables)]

fetchRoster(tables) == [tag |-> "ok", value |-> makeFetchRoster(tables)]

fetchArchives(elements) == [tag |-> "ok", value |-> makeFetchArchives(elements)]

TABLE_FETCHERS == { "standings", "stats", "roster" }

PageResult(fetcher, page) ==
    CASE fetcher = "standings" -> fetchStandings(page)
      [] fetcher = "stats" -> fetchStats(page)
      [] fetcher = "roster" -> fetchRoster(page)
      [] fetcher = "archives" -> fetchArchives(page)

\* the season of the site with the answer of one fetcher in its place
WithPart(data, fetcher, value) ==
    CASE fetcher = "standings" -> [data EXCEPT !.standings = value]
      [] fetcher = "stats" -> [data EXCEPT !.playerStats = value.players,
                                           !.goalieStats = value.goalies]
      [] fetcher = "roster" -> [data EXCEPT !.roster = value]

\* the unit of fetchAllSeasons for the season, one of its fetchers having
\* ended as `result` and the others with what the site holds
UnitWithPage(fetcher, season, result) ==
    IF fetcher \notin TABLE_FETCHERS THEN None
    ELSE LET w == IF result.tag = "ok"
                  THEN [web EXCEPT !.season[season] =
                                       WithPart(@, fetcher, result.value)]
                  ELSE web
             rs == [k \in 1..Len(SEASON_FETCHERS) |->
                      IF SEASON_FETCHERS[k] = fetcher THEN result.tag ELSE "ok"]
         IN  SeasonUnitOf(makeFetchSeason(w, season, rs), season, currentYear)

PageOutcome(in) ==
    LET result == PageResult(in.fetcher, in.page)
    IN  [result |-> result,
         unit |-> UnitWithPage(in.fetcher, in.season, result)]

PlayerRow ==
    << Str(<< "Sam", " ", "(C)" >>), Num(9), Num(3), Num(4), Num(1), Num(5),
       Str(<< "Oakland" >>) >>

\* the tables of the season pages: those of the standings page, a player
\* stats table, a goalie stats table and a roster table
PageTables ==
    TableShapes \cup
    { HtmlTable(<< << "Name" >>, << "#" >>, << "GP" >>, << "G" >>, << "A" >>,
                   << "PTS" >> >>, << PlayerRow, << Str(<< "Totals" >>) >> >>),
      HtmlTable(<< << "Name" >>, << "#" >>, << "W" >>, << "L" >>, << "GA" >>,
                   << "SV" >>, << "SV%" >> >>, << PlayerRow >>),
      HtmlTable(<< << "Name" >>, << "#" >>, << "Position" >>, << "Height" >>,
                   << "Weight" >>, << "Age" >>, << "Home Town" >> >>,
                << PlayerRow, << Str(<< "(A)" >>), Num(1), Num(1), Num(1),
                                Num(1), Num(1), Num(1) >> >>) }

\* the elements of the archives page: two headings that name a season, a
\* champion line, text that names a season and a champion, text without
\* either, a heading that is a year, a year that nothing follows
ArchiveElements ==
    { ArchElement("h3", << "Winter", " ", "Champions" >>),
      ArchElement("strong", << "Spring" >>),
      ArchElement("p", << " ", "2025", ":", " " >> \o BARBARY_COAST),
      ArchElement("p", << "Summer", " ", "2024", "-" >> \o OLYMPIC_CLUB
                          \o << ",", "2023", ":", ":" >>),
      ArchElement("p", << "News" >>),
      ArchElement("h4", << "2023" >>),
      ArchElement("div", << "2026", ":" >>) }

PagesInit ==
    /\ web = WebEarly
    /\ currentSeason = "winter"
    /\ currentYear = 2026
    /\ SyncInit
    /\ file = NoFile
    /\ schedule = << >>
    /\ derived = << >>
    /\ PoolIdle
    /\ \/ \E fetcher \in TABLE_FETCHERS, season \in Seasons :
             input = [fetcher |-> fetcher, season |-> season, page |-> << >>]
       \/ input = [fetcher |-> "archives", season |-> "winter", page |-> << >>]
    /\ output = PageOutcome(input)

\* the page of a season has one more table
TableOnPage ==
    /\ input.fetcher \in TABLE_FETCHERS
    /\ Len(input.page) < MaxTables
    /\ \E table \in PageTables :
          input' = [input EXCEPT !.page = Append(@, table)]
    /\ output' = PageOutcome(input')
    /\ UNCHANGED << syncVars, standingsVars, poolVars >>

\* the archives page has one more element
ElementOnPage ==
    /\ input.fetcher = "archives"
    /\ Len(input.page) < MaxElements
    /\ \E element \in ArchiveElements :
          input' = [input EXCEPT !.page = Append(@, element)]
    /\ output' = PageOutcome(input')
    /\ UNCHANGED << syncVars, standingsVars, poolVars >>

PagesNext == TableOnPage \/ ElementOnPage

SpecPages == PagesInit /\ [][PagesNext]_vars

-----------------------------------------------------------------------------
(* Claims about the sync process, under Spec *)

Happened(step) == \E i \in 1..Len(steps) : steps[i] = step

\* how the championship request of the run ended, once it has
ChampionshipResponse ==
    IF Len(inputs.responses) >= 1 THEN inputs.responses[1] ELSE "none"

\* the run has passed the season stage of a full sync with every request answered
FullSeasonsJoined ==
    /\ ~currentOnly
    /\ Len(inputs.responses) >= 2
    /\ \A i \in 1..Len(SEASONS) : inputs.responses[2][i] # "hang"

\* what the site of the run published for a season is neither games nor standings
PublishedNothing(season) ==
    /\ Len(inputs.web.season[season].schedule) = 0
    /\ Len(inputs.web.season[season].standings) = 0

\* unit i of the full sync failed or found nothing
LeftOut(i) ==
    \/ inputs.responses[2][i] = "fail"
    \/ PublishedNothing(SEASONS[i])

ArchiveKeys ==
    { SeasonKey(BC_ARCHIVE_SEASONS[u].season, BC_ARCHIVE_SEASONS[u].year) :
        u \in ArchiveUnits }

\* the request of some archive pair of the run failed
ArchiveRequestFailed ==
    /\ withArchives
    /\ \E k \in 3..Len(inputs.responses) : inputs.responses[k] = "fail"

\* C1: when a sync without --with-archives has persisted its snapshot and a
\* previous snapshot existed, every season key of the previous snapshot that
\* the run did not fetch is in the new snapshot with the same SeasonData.
C1_UnfetchedSeasonsCarriedForward ==
    (pc = "done" /\ ~withArchives /\ fileAtStart.kind = "json") =>
        /\ file.kind = "json"
        /\ \A i \in 1..Len(fileAtStart.value.seasons) :
              LET e == fileAtStart.value.seasons[i]
              IN  ~HasKey(fresh, e.key) =>
                      /\ HasKey(file.value.seasons, e.key)
                      /\ Lookup(file.value.seasons, e.key) = e.data

\* a --current-only sync that ended after a full sync, with a season of the
\* full sync it did not fetch itself
C1_Witness ==
    /\ pc = "done"
    /\ currentOnly
    /\ ~withArchives
    /\ prev.valid
    /\ ~prev.currentOnly
    /\ fileAtStart = JSONText(prev.allData)
    /\ \E i \in 1..Len(fileAtStart.value.seasons) :
          LET e == fileAtStart.value.seasons[i]
          IN  /\ ~HasKey(fresh, e.key)
              /\ Lookup(file.value.seasons, e.key) = e.data
              /\ Len(e.data.schedule) > 0

\* C2: when the championship fetch fails, or the season fetch of a
\* --current-only run fails, the run ends in failure, no write has begun and
\* the snapshot file is as it was when the run started.
C2_FatalFetchLeavesFileUntouched ==
    (\/ ChampionshipResponse = "fail"
     \/ (currentOnly /\ Len(inputs.responses) >= 2 /\ inputs.responses[2] = "fail"))
        => /\ pc = "failed"
           /\ fatal \in { "championships", "seasons" }
           /\ ~Happened("write")
           /\ file = fileAtStart

\* a --current-only run whose season fetch failed, over an existing snapshot
C2_Witness ==
    /\ pc = "failed"
    /\ currentOnly
    /\ fatal = "seasons"
    /\ ChampionshipResponse = "ok"
    /\ fileAtStart.kind = "json"
    /\ file = fileAtStart

\* C3: in a full sync a season whose fetch fails or returns neither games nor
\* standings is not among the run's results, the other seasons are, with what
\* the site published, no such failure ends the run, and the snapshot the run
\* persists holds the other seasons.
C3_FailedOrEmptySeasonLeftOut ==
    FullSeasonsJoined =>
        /\ fatal # "seasons"
        /\ (pc = "fetchArchiveSeasons" \/ ~withArchives) =>
              \A i \in 1..Len(SEASONS) :
                  LET key == SeasonKey(SEASONS[i], currentYear)
                  IN  IF LeftOut(i)
                      THEN ~HasKey(fresh, key)
                      ELSE /\ HasKey(fresh, key)
                           /\ Lookup(fresh, key) = inputs.web.season[SEASONS[i]]
        /\ pc = "done" =>
              \A i \in 1..Len(SEASONS) :
                  LET key == SeasonKey(SEASONS[i], currentYear)
                  IN  ~LeftOut(i) =>
                          /\ HasKey(file.value.seasons, key)
                          /\ key \notin ArchiveKeys =>
                                Lookup(file.value.seasons, key)
                                    = inputs.web.season[SEASONS[i]]

\* a full sync that persisted a snapshot although the winter fetch failed and
\* spring was empty: summer is in it, winter and spring are not
C3_Witness ==
    /\ pc = "done"
    /\ FullSeasonsJoined
    /\ fileAtStart = NoFile
    /\ ~withArchives
    /\ inputs.responses[2][1] = "fail"
    /\ inputs.responses[2][2] = "ok"
    /\ PublishedNothing("spring")
    /\ inputs.responses[2][3] = "ok"
    /\ KeysOf(file.value.seasons) = { SeasonKey("summer", currentYear) }

\* C4: under --with-archives the failure of the request of one archive pair
\* fails that unit only: the run goes on and does not end in failure.
C4_ArchiveFailureIsolated ==
    ArchiveRequestFailed => (pc # "failed" /\ fatal # "archives")

\* C5: a run that follows a completed run with the same flags, the same site
\* and the same answers persists a snapshot equal to the previous one in every
\* field but fetchedAt, the order of the season keys and of the summaries
\* included.
C5_SecondRunReproducesFirst ==
    (/\ pc = "done"
     /\ prev.valid
     /\ prev.currentOnly = currentOnly
     /\ prev.withArchives = withArchives
     /\ prev.inputs = inputs)
        => /\ file = JSONText(allData)
           /\ [allData EXCEPT !.fetchedAt = 0]
                 = [prev.allData EXCEPT !.fetchedAt = 0]

\* two full syncs in a row with the same answers, the first of which carried a
\* season forward from an older snapshot, and a club record that is not zero
C5_Witness ==
    /\ pc = "done"
    /\ prev.valid
    /\ ~currentOnly /\ ~prev.currentOnly
    /\ ~withArchives /\ ~prev.withArchives
    /\ prev.inputs = inputs
    /\ allData.fetchedAt # prev.allData.fetchedAt
    /\ allData.barbaryCoast.allTime.wins > 0
    /\ \E i \in 1..Len(allData.seasons) : ~HasKey(fresh, allData.seasons[i].key)

StepRank(step) ==
    CASE step = "championships" -> 1
      [] step = "seasons" -> 2
      [] step = "archives" -> 3
      [] step = "merge" -> 4
      [] step = "summaries" -> 5
      [] step = "write" -> 6

\* C6: the steps of a run happen in the order championships, seasons,
\* archives, merge, summaries, write, each at most once; no season or archive
\* request is issued before the championship fetch has succeeded; the write
\* comes after the summaries and, without --with-archives, after the merge;
\* the file changes only once the write has begun.
C6_StepsInOrder ==
    /\ \A i, j \in 1..Len(steps) : i < j => StepRank(steps[i]) < StepRank(steps[j])
    /\ (Happened("seasons") \/ Happened("archives")) =>
          (Happened("championships") /\ ChampionshipResponse = "ok")
    /\ Happened("archives") => (withArchives /\ Happened("seasons"))
    /\ Happened("merge") => (~withArchives /\ Happened("seasons"))
    /\ Happened("summaries") =>
          IF withArchives THEN Happened("archives") ELSE Happened("merge")
    /\ Happened("write") => Happened("summaries")
    /\ file # fileAtStart => Happened("write")

\* a run without --with-archives that has gone through all five steps
C6_Witness ==
    /\ pc = "done"
    /\ steps = << "championships", "seasons", "merge", "summaries", "write" >>
    /\ file # fileAtStart

\* C7: at every moment the snapshot file holds the complete snapshot it held
\* when the run started or the complete new snapshot.
C7_WriteIsAtomicReplace ==
    /\ file.kind # "partial"
    /\ file = fileAtStart \/ file = JSONText(allData)

\* C8: no run waits for ever on a request that is never answered.
C8_NoRunStalls == pc # "hung"

\* the summaries of the snapshot the run has built
BuiltSummaries ==
    IF allData = None THEN << >> ELSE allData.barbaryCoast.seasons

\* some championship record names the club and a season label that the key holds
TitleMatches(seasonKey) ==
    \E k \in 1..Len(championships) :
        /\ Includes(championships[k].champion, BARBARY_COAST)
        /\ Includes(seasonKey, << championships[k].season >>)

\* C12: a summary reads Champions whenever a championship record matches its
\* season key, whatever the record; otherwise Playoffs exactly when wins >
\* losses; otherwise Regular Season; isChampion is true exactly when the
\* result is Champions.
C12_SummaryClassification ==
    \A k \in 1..Len(BuiltSummaries) :
        LET summary == BuiltSummaries[k]
        IN  /\ TitleMatches(summary.season) => summary.result = "Champions"
            /\ (~TitleMatches(summary.season) /\ summary.wins > summary.losses)
                  => summary.result = "Playoffs"
            /\ (~TitleMatches(summary.season) /\ summary.wins <= summary.losses)
                  => summary.result = "Regular Season"
            /\ summary.isChampion <=> summary.result = "Champions"

\* a snapshot with a champion season of more losses than wins, a champion
\* season of more wins than losses, a Playoffs season and a Regular Season one
C12_Witness ==
    /\ pc = "done"
    /\ \E k \in 1..Len(BuiltSummaries) :
          /\ BuiltSummaries[k].result = "Champions"
          /\ BuiltSummaries[k].wins < BuiltSummaries[k].losses
    /\ \E k \in 1..Len(BuiltSummaries) :
          /\ BuiltSummaries[k].result = "Champions"
          /\ BuiltSummaries[k].wins > BuiltSummaries[k].losses
    /\ \E k \in 1..Len(BuiltSummaries) :
          /\ BuiltSummaries[k].result = "Playoffs"
          /\ ~BuiltSummaries[k].isChampion
    /\ \E k \in 1..Len(BuiltSummaries) :
          /\ BuiltSummaries[k].result = "Regular Season"
          /\ BuiltSummaries[k].wins <= BuiltSummaries[k].losses

\* the standings have a row whose team holds the club's name
HasClubRow(standings) ==
    \E i \in 1..Len(standings) : Includes(standings[i].team, BARBARY_COAST)

\* the sum of one field over the first n summaries
RECURSIVE SumOfField(_, _, _)
SumOfField(summaries, field, n) ==
    IF n = 0 THEN 0
    ELSE summaries[n][field] + SumOfField(summaries, field, n - 1)

\* C13: in every persisted snapshot, barbaryCoast.seasons holds exactly one
\* summary for each season key whose standings have a row for the club and
\* none for any other key, and barbaryCoast.allTime is the sum of the
\* summaries' wins, losses, ties, goalsFor and goalsAgainst, with titles the
\* number of summaries whose isChampion is true.
C13_SummariesAndAllTime ==
    file.kind = "json" =>
        LET snapshot == file.value
            summaries == snapshot.barbaryCoast.seasons
            allTime == snapshot.barbaryCoast.allTime
            n == Len(summaries)
        IN  /\ \A i \in 1..Len(snapshot.seasons) :
                  Cardinality({ k \in 1..n :
                                  summaries[k].season = snapshot.seasons[i].key })
                     = IF HasClubRow(snapshot.seasons[i].data.standings)
                       THEN 1 ELSE 0
            /\ \A k \in 1..n : HasKey(snapshot.seasons, summaries[k].season)
            /\ allTime.wins = SumOfField(summaries, "wins", n)
            /\ allTime.losses = SumOfField(summaries, "losses", n)
            /\ allTime.ties = SumOfField(summaries, "ties", n)
            /\ allTime.goalsFor = SumOfField(summaries, "goalsFor", n)
            /\ allTime.goalsAgainst = SumOfField(summaries, "goalsAgainst", n)
            /\ allTime.titles
                  = Cardinality({ k \in 1..n : summaries[k].isChampion })

\* a snapshot written by a run that merged: seasons with and without a row
\* for the club, several summaries, titles fewer than summaries
C13_Witness ==
    /\ pc = "done"
    /\ Happened("merge")
    /\ Len(file.value.barbaryCoast.seasons) >= 2
    /\ Len(file.value.seasons) > Len(file.value.barbaryCoast.seasons)
    /\ file.value.barbaryCoast.allTime.titles >= 1
    /\ file.value.barbaryCoast.allTime.titles
          < Len(file.value.barbaryCoast.seasons)
    /\ file.value.barbaryCoast.allTime.wins >= 2
    /\ \E i \in 1..Len(file.value.seasons) :
          ~HasKey(fresh, file.value.seasons[i].key)

\* C23: in every run mode a season unit whose fetch succeeds with no games
\* and no standings is excluded from the results of the run: every entry the
\* run fetched has games or standings.
C23_EmptyUnitsExcludedInEveryMode ==
    \A i \in 1..Len(fresh) :
        \/ Len(fresh[i].data.schedule) > 0
        \/ Len(fresh[i].data.standings) > 0

\* C24: the season keys of the persisted snapshot never shrink over
\* successful runs: a run that ends with its snapshot written has kept every
\* key of the snapshot it started from.
C24_SeasonKeysNeverShrink ==
    (pc = "done" /\ fileAtStart.kind = "json") =>
        KeysOf(fileAtStart.value.seasons) \subseteq KeysOf(file.value.seasons)

\* a full sync without --with-archives has persisted its snapshot, having
\* started from a snapshot
FullSyncPersistedOverSnapshot ==
    /\ pc = "done"
    /\ FullSeasonsJoined
    /\ ~withArchives
    /\ fileAtStart.kind = "json"

\* C25: in a full sync without --with-archives, a season whose fetch fails
\* or returns no data and whose key (season-currentYear) the previous
\* snapshot has keeps the previous entry unchanged in the new snapshot; a
\* season fetched with data is in the new snapshot as fetched, not as cached.
C25_CachedKeptOnlyWhenNotFetched ==
    FullSyncPersistedOverSnapshot =>
        \A i \in 1..Len(SEASONS) :
            LET key == SeasonKey(SEASONS[i], currentYear)
                before == fileAtStart.value.seasons
                after == file.value.seasons
            IN  IF LeftOut(i)
                THEN HasKey(before, key) =>
                        /\ HasKey(after, key)
                        /\ Lookup(after, key) = Lookup(before, key)
                ELSE /\ HasKey(after, key)
                     /\ Lookup(after, key) = inputs.web.season[SEASONS[i]]

\* a full sync whose summer request failed and whose winter request brought
\* data other than the cached one: the snapshot has the cached summer and the
\* fetched winter
C25_Witness ==
    /\ FullSyncPersistedOverSnapshot
    /\ inputs.responses[2][1] = "ok"
    /\ inputs.responses[2][3] = "fail"
    /\ HasKey(fileAtStart.value.seasons, SeasonKey("winter", currentYear))
    /\ HasKey(fileAtStart.value.seasons, SeasonKey("summer", currentYear))
    /\ Lookup(fileAtStart.value.seasons, SeasonKey("winter", currentYear))
          # inputs.web.season["winter"]
    /\ Lookup(file.value.seasons, SeasonKey("winter", currentYear))
          = inputs.web.season["winter"]
    /\ Lookup(file.value.seasons, SeasonKey("summer", currentYear))
          = Lookup(fileAtStart.value.seasons, SeasonKey("summer", currentYear))
    /\ Len(Lookup(file.value.seasons, SeasonKey("summer", currentYear)).schedule) > 0

\* C26: a snapshot file that is missing, unreadable or not valid JSON does
\* not make the sync fail: the run goes on as if there were no snapshot and
\* persists exactly the seasons it fetched.
C26_UnusableSnapshotIsNoSnapshot ==
    (fileAtStart.kind # "json" /\ ~withArchives) =>
        /\ fatal # "existing"
        /\ pc = "done" => file.value.seasons = fresh

\* the championship records of the snapshot the run has built that name the
\* club
ClubTitles ==
    IF allData = None THEN { }
    ELSE { k \in 1..Len(allData.championships) :
             Includes(allData.championships[k].champion, BARBARY_COAST) }

\* C27: a summary for the key season-year has isChampion true only if a
\* championship record of that season and that year names the club, and the
\* all-time title count is at most the number of championship records that
\* name the club.
C27_TitleNeedsSeasonAndYear ==
    /\ \A k \in 1..Len(BuiltSummaries) :
          BuiltSummaries[k].isChampion =>
              \E c \in ClubTitles :
                  BuiltSummaries[k].season
                     = SeasonKey(allData.championships[c].season,
                                 allData.championships[c].year)
    /\ allData # None =>
          allData.barbaryCoast.allTime.titles <= Cardinality(ClubTitles)

-----------------------------------------------------------------------------
(* Claims about standingsFromSchedule, under SpecStandings *)

Incomplete(g) == g.awayScore = NULL \/ g.homeScore = NULL

WithoutGame(games, i) == SubSeq(games, 1, i - 1) \o SubSeq(games, i + 1, Len(games))

\* the sides a team took in completed games: << index of the game, side >>
SidesOf(team) ==
    { p \in (1..Len(schedule)) \X { "away", "home" } :
        /\ ~Incomplete(schedule[p[1]])
        /\ team = (IF p[2] = "away" THEN schedule[p[1]].awayTeam
                   ELSE schedule[p[1]].homeTeam) }

Scored(p) == IF p[2] = "away" THEN schedule[p[1]].awayScore
             ELSE schedule[p[1]].homeScore

Conceded(p) == IF p[2] = "away" THEN schedule[p[1]].homeScore
               ELSE schedule[p[1]].awayScore

RECURSIVE GoalsScored(_)
GoalsScored(sides) ==
    IF sides = { } THEN 0
    ELSE LET p == CHOOSE x \in sides : TRUE
         IN  Scored(p) + GoalsScored(sides \ { p })

RECURSIVE GoalsConceded(_)
GoalsConceded(sides) ==
    IF sides = { } THEN 0
    ELSE LET p == CHOOSE x \in sides : TRUE
         IN  Conceded(p) + GoalsConceded(sides \ { p })

\* C9: a game with an unknown away or home score changes no counter of any
\* team (the standings are those of the list without it), and a team that
\* appears only in such games has no row.
C9_UnknownScoreGamesIgnored ==
    /\ \A i \in 1..Len(schedule) :
          Incomplete(schedule[i]) =>
              standingsFromSchedule(WithoutGame(schedule, i)) = derived
    /\ \A team \in StandingTeams :
          SidesOf(team) = { } => ~HasTeam(derived, team)

\* a list with a game of which only one score is unknown, in which B appears
\* in games of unknown score only, and A has a completed game
C9_Witness ==
    /\ \E i \in 1..Len(schedule) :
          /\ schedule[i].awayScore # NULL
          /\ schedule[i].homeScore = NULL
          /\ schedule[i].homeTeam = "B"
    /\ \E i \in 1..Len(schedule) :
          /\ schedule[i].awayScore = NULL
          /\ schedule[i].homeScore # NULL
    /\ SidesOf("B") = { }
    /\ Len(derived) = 1
    /\ derived[1].team = "A"

\* C10: every row has gp = the completed games the team played (one per side
\* it took), w, l and t = those it won, lost and tied, gf and ga = its goals
\* scored and conceded in them, pts = 2 * w + t, and gp = w + l + t.
C10_RowsAreTheTotals ==
    \A k \in 1..Len(derived) :
        LET row == derived[k]
            played == SidesOf(row.team)
        IN  /\ row.gp = Cardinality(played)
            /\ row.w = Cardinality({ p \in played : Scored(p) > Conceded(p) })
            /\ row.l = Cardinality({ p \in played : Scored(p) < Conceded(p) })
            /\ row.t = Cardinality({ p \in played : Scored(p) = Conceded(p) })
            /\ row.gf = GoalsScored(played)
            /\ row.ga = GoalsConceded(played)
            /\ row.pts = 2 * row.w + row.t
            /\ row.gp = row.w + row.l + row.t

\* three games between A and B, one won by each and one tied: both rows read
\* 1W-1L-1T and 3 points
C10_Witness ==
    /\ Len(schedule) = 3
    /\ \A i \in 1..3 : schedule[i].awayTeam = "A" /\ schedule[i].homeTeam = "B"
    /\ Len(derived) = 2
    /\ \A k \in 1..2 :
          /\ derived[k].gp = 3
          /\ derived[k].w = 1
          /\ derived[k].l = 1
          /\ derived[k].t = 1
          /\ derived[k].pts = 3
    /\ \E k \in 1..2 : derived[k].team = "A" /\ derived[k].gf = 2 /\ derived[k].ga = 2

\* the games of the list whose two scores are known
CompletedGames == { i \in 1..Len(schedule) : ~Incomplete(schedule[i]) }

\* the sum of one column of the derived standings
ColumnSum(field) == SumOfField(derived, field, Len(derived))

\* C29: when no game of the list has the same team at home and away, the
\* derived standings are conserved: the gp sum up to twice the completed
\* games, the w to as much as the l, the t to an even number, the gf to as
\* much as the ga, and the pts to twice the completed games.
C29_StandingsConserved ==
    (\A i \in 1..Len(schedule) : schedule[i].awayTeam # schedule[i].homeTeam) =>
        /\ ColumnSum("gp") = 2 * Cardinality(CompletedGames)
        /\ ColumnSum("w") = ColumnSum("l")
        /\ ColumnSum("t") % 2 = 0
        /\ ColumnSum("gf") = ColumnSum("ga")
        /\ ColumnSum("pts") = 2 * Cardinality(CompletedGames)

\* three games between A and B, none of a team against itself: one of
\* unknown score, one won and one tied
C29_Witness ==
    /\ Len(schedule) = 3
    /\ \A i \in 1..3 : schedule[i].awayTeam # schedule[i].homeTeam
    /\ Cardinality(CompletedGames) = 2
    /\ ColumnSum("w") = 1
    /\ ColumnSum("t") = 2
    /\ ColumnSum("pts") = 4
    /\ Len(derived) = 2

-----------------------------------------------------------------------------
(* Claims about the order of the standings, under SpecLeague *)

GoalDifferential(row) == row.gf - row.ga

\* C11: the rows of standingsFromSchedule are in the order of points
\* descending and, among equal points, goal differential descending: of two
\* adjacent rows the first has more points, or the same points and a goal
\* differential that is not lower.
C11_OrderedByPointsThenDifferential ==
    \A k \in 1..(Len(derived) - 1) :
        \/ derived[k].pts > derived[k + 1].pts
        \/ /\ derived[k].pts = derived[k + 1].pts
           /\ GoalDifferential(derived[k]) >= GoalDifferential(derived[k + 1])

\* three rows, the first two level on points and apart on goal differential,
\* the last one the club that entered the table first
C11_Witness ==
    /\ Len(derived) = 3
    /\ derived[1].pts = derived[2].pts
    /\ GoalDifferential(derived[1]) > GoalDifferential(derived[2])
    /\ derived[2].pts > derived[3].pts
    /\ derived[3].team = schedule[1].awayTeam
    /\ derived[1].team = schedule[Len(schedule)].homeTeam

-----------------------------------------------------------------------------
(* Claims about fetchSchedule, under SpecSchedule *)

IsEmptyString(val) == val.t = "string" /\ val.v = << >>

\* a raw score the API is known to send: a number, null or the empty string
KnownScoreShape(val) ==
    val.t = "number" \/ val.t = "null" \/ IsEmptyString(val)

\* record i of the response is valid
ValidRecord(i) ==
    LET item == input.items[i]
    IN  /\ item.id.t = "number"
        /\ item.awayteam.t = "string"
        /\ item.hometeam.t = "string"
        /\ KnownScoreShape(item.awayscore)
        /\ KnownScoreShape(item.homescore)

\* the valid records among the first i
ValidUpTo(i) == { j \in 1..i : ValidRecord(j) }

Skipped == { j \in 1..Len(input.items) : ~ValidRecord(j) }

\* what the claim has a raw score decode to
ExpectedScore(val) == IF val.t = "number" THEN val.v ELSE NULL

\* C14: in every valid raw record a score that is the empty string decodes
\* to null, a null to null and a number to itself; the record is kept, and no
\* decoded score is anything but null or a number.
C14_EmptyStringScoreIsUnknown ==
    input.kind = "array" =>
        /\ output.tag = "ok"
        /\ \A i \in 1..Len(input.items) :
              ValidRecord(i) =>
                  LET k == Cardinality(ValidUpTo(i))
                  IN  /\ k <= Len(output.games)
                      /\ output.games[k].awayScore
                            = ExpectedScore(input.items[i].awayscore)
                      /\ output.games[k].homeScore
                            = ExpectedScore(input.items[i].homescore)
        /\ \A k \in 1..Len(output.games) :
              /\ output.games[k].awayScore \in Nat \cup { NULL }
              /\ output.games[k].homeScore \in Nat \cup { NULL }

\* a response whose records have scores "" and 2, null and "", 2 and null,
\* all three decoded
C14_Witness ==
    /\ input.kind = "array"
    /\ Len(input.items) = 3
    /\ IsEmptyString(input.items[1].awayscore)
    /\ input.items[1].homescore = Num(2)
    /\ input.items[2].awayscore = JNull
    /\ IsEmptyString(input.items[2].homescore)
    /\ input.items[3].awayscore = Num(2)
    /\ input.items[3].homescore = JNull
    /\ Len(output.games) = 3
    /\ output.games[1].awayScore = NULL
    /\ output.games[1].homeScore = 2
    /\ output.games[2].awayScore = NULL
    /\ output.games[2].homeScore = NULL
    /\ output.games[3].awayScore = 2

\* C15: an invalid record never ends the batch: every invalid record is
\* skipped and counted, every valid record gives one game, in input order, so
\* the number of games is the number of records less the skipped ones, and
\* the count of the skipped records is in the closing warning.
C15_InvalidRecordsSkippedAndCounted ==
    input.kind = "array" =>
        LET n == Len(input.items)
            games == output.games
            failed == Cardinality(Skipped)
        IN  /\ output.tag = "ok"
            /\ Len(games) = n - failed
            /\ Len(games) <= n
            /\ \A i \in 1..n :
                  ValidRecord(i) =>
                      LET g == games[Cardinality(ValidUpTo(i))]
                      IN  /\ g.id = input.items[i].id.v
                          /\ g.awayScore = ExpectedScore(input.items[i].awayscore)
                          /\ g.homeScore = ExpectedScore(input.items[i].homescore)
            /\ IF failed = 0 THEN output.warnings = << >>
               ELSE /\ Len(output.warnings) = failed + 1
                    /\ output.warnings[failed + 1] = [failed |-> failed, of |-> n]
                    /\ \A j \in Skipped :
                          output.warnings[j - Cardinality(ValidUpTo(j))]
                             = [item |-> input.items[j]]

\* a valid record, an invalid one and another valid one: two games, in the
\* order of the records, and one skipped record reported
C15_Witness ==
    /\ input.kind = "array"
    /\ Len(input.items) = 3
    /\ ValidRecord(1)
    /\ ~ValidRecord(2)
    /\ ValidRecord(3)
    /\ input.items[1].awayscore = Num(2)
    /\ input.items[3].awayscore = JNull
    /\ Len(output.games) = 2
    /\ output.games[1].awayScore = 2
    /\ output.games[2].awayScore = NULL
    /\ output.warnings[Len(output.warnings)] = [failed |-> 1, of |-> 3]

-----------------------------------------------------------------------------
(* Claims about the table locator, under SpecTables *)

\* the trimmed texts of the header cells of table i of the page
HeaderTexts(i) == { Trim(input[i].th[k]) : k \in 1..Len(input[i].th) }

RequiredSet == { STANDINGS_HEADERS[k] : k \in 1..Len(STANDINGS_HEADERS) }

Satisfying == { i \in 1..Len(input) : RequiredSet \subseteq HeaderTexts(i) }

\* C16: findTableWithHeaders returns the first table, in document order,
\* whose trimmed header-cell texts include every required header, whatever
\* their order and the other columns, and null exactly when no table does.
C16_FirstTableWithEveryHeader ==
    /\ output.table = 0 <=> Satisfying = { }
    /\ output.table # 0 =>
          /\ output.table \in Satisfying
          /\ \A i \in Satisfying : output.table <= i

\* a page of three tables: the first lacks a required header, the second has
\* them all in another order among other columns, the third has them too
C16_Witness ==
    /\ Len(input) = 3
    /\ << "L" >> \notin HeaderTexts(1)
    /\ << "GP" >> \in HeaderTexts(1)
    /\ Len(input[2].th) > 0
    /\ input[2].th[1] = << "L" >>
    /\ << "PTS" >> \in HeaderTexts(2)
    /\ 3 \in Satisfying
    /\ output.table = 2

\* C22: a season's standings list has at most one row per team name; here
\* for the list scraped from the standings page.
C22_OneRowPerTeam ==
    \A i, j \in 1..Len(output.standings) :
        output.standings[i].team = output.standings[j].team => i = j

-----------------------------------------------------------------------------
(* Claims about fetchSeason, under SpecSeason *)

EveryFetcherSucceeded ==
    /\ Len(input.responses) = Len(SEASON_FETCHERS)
    /\ \A k \in 1..Len(input.responses) : input.responses[k] = "ok"

SomeFetcherFailed ==
    \E k \in 1..Len(input.responses) : input.responses[k] = "fail"

\* C17: fetchSeason has a SeasonData only once the schedule, standings, stats
\* and roster fetches have all succeeded, and then it holds all four as
\* published; when one of them fails the unit returns null, so the season is
\* absent, and no unit ever returns an entry filled in part.
C17_SeasonAllOrNothing ==
    /\ output.result.tag = "ok" <=> EveryFetcherSucceeded
    /\ output.result.tag = "ok" => output.result.value = web.season[input.season]
    /\ SomeFetcherFailed => output.unit = None
    /\ output.unit \notin { None, [kind |-> "pending"] } =>
          /\ EveryFetcherSucceeded
          /\ output.unit.data = web.season[input.season]

\* the schedule, standings and stats of a season with games arrived and the
\* roster request failed: the unit returned null
C17_Witness ==
    /\ input.responses = << "ok", "ok", "ok", "fail" >>
    /\ Len(web.season[input.season].schedule) > 0
    /\ Len(web.season[input.season].roster) > 0
    /\ output.result.tag = "fail"
    /\ output.unit = None

-----------------------------------------------------------------------------
(* Claims about the fan-outs, under SpecFanOut *)

\* C18: at most three units of a fan-out are in flight at any moment, and
\* every unit is started: when the fan-out has ended none is left that was
\* never started.
C18_AtMostThreeInFlightAllStarted ==
    /\ Cardinality(WithState("running")) <= CONCURRENCY
    /\ joined # None => WithState("pending") = { }

\* the units whose result goes into the mapping, by the outcomes alone
Contributing ==
    IF fanOut.kind = "archives" THEN Units
    ELSE { u \in Units :
             /\ fanOut.outcomes[u] = "ok"
             /\ \/ Len(web.season[SEASONS[u]].schedule) > 0
                \/ Len(web.season[SEASONS[u]].standings) > 0 }

ContributionOf(u) ==
    IF fanOut.kind = "archives"
    THEN [key |-> SeasonKey(BC_ARCHIVE_SEASONS[u].season,
                            BC_ARCHIVE_SEASONS[u].year),
          data |-> SeasonData(web.archive[u],
                              standingsFromSchedule(web.archive[u]),
                              << >>, << >>, << >>)]
    ELSE [key |-> SeasonKey(SEASONS[u], currentYear),
          data |-> web.season[SEASONS[u]]]

\* C19: the mapping a fan-out produces depends on the outcomes of the units
\* only, not on the order in which they end: it holds one entry for each unit
\* that contributes, with that unit's data, in the order of the input list.
C19_MappingIndependentOfCompletionOrder ==
    (joined # None /\ joined.tag = "ok") =>
        /\ Len(joined.seasons) = Cardinality(Contributing)
        /\ \A u \in Contributing :
              joined.seasons[Cardinality({ v \in Contributing : v <= u })]
                 = ContributionOf(u)

\* the season fan-out joined after summer ended first and winter last, with
\* winter before summer in the mapping
C19_Witness ==
    /\ joined # None
    /\ joined.tag = "ok"
    /\ fanOut.kind = "seasons"
    /\ finishOrder = << 3, 2, 1 >>
    /\ Len(joined.seasons) = 2
    /\ joined.seasons[1].key = SeasonKey("winter", currentYear)
    /\ joined.seasons[2].key = SeasonKey("summer", currentYear)

-----------------------------------------------------------------------------
(* Claims about the HTML fetchers, under SpecPages *)

\* the trimmed texts of the header cells of table i of the page fetched
PageHeaders(i) ==
    { Trim(input.page[i].th[k]) : k \in 1..Len(input.page[i].th) }

NoTableWith(required) ==
    \A i \in 1..Len(input.page) : ~(required \subseteq PageHeaders(i))

StandingsMiss ==
    /\ input.fetcher = "standings"
    /\ NoTableWith({ << "GP" >>, << "W" >>, << "L" >> })

StatsMiss ==
    /\ input.fetcher = "stats"
    /\ NoTableWith({ << "W" >>, << "L" >>, << "GA" >>, << "SV" >> })
    /\ \A i \in 1..Len(input.page) :
          \/ ~({ << "GP" >>, << "G" >>, << "A" >>, << "PTS" >> }
                   \subseteq PageHeaders(i))
          \/ << "W" >> \in PageHeaders(i)

RosterMiss ==
    /\ input.fetcher = "roster"
    /\ NoTableWith({ << "Position" >>, << "Height" >> })

\* the archives page names no season, or holds no year that a separator
\* follows
ArchivesMiss ==
    /\ input.fetcher = "archives"
    /\ LET text == PageText(input.page)
       IN  \/ \A k \in 1..Len(text) : ~IsSeasonWord(text[k])
           \/ \A k \in 1..(Len(text) - 1) :
                 ~(IsYear(text[k]) /\ IsSeparator(text[k + 1]))

\* C20: a page without the table with the required headers (standings,
\* stats, roster), or without a season heading or a champion pattern
\* (archives), makes the fetcher succeed with an empty collection, and a
\* season that has games and no standings table is stored with its games and
\* empty standings.
C20_StructuralMissIsEmptyNotFailure ==
    /\ (StandingsMiss \/ RosterMiss \/ ArchivesMiss) =>
          output.result = [tag |-> "ok", value |-> << >>]
    /\ StatsMiss =>
          output.result = [tag |-> "ok",
                           value |-> [players |-> << >>, goalies |-> << >>]]
    /\ (StandingsMiss /\ Len(web.season[input.season].schedule) > 0) =>
          output.unit =
             [key |-> SeasonKey(input.season, currentYear),
              data |-> [web.season[input.season] EXCEPT !.standings = << >>]]

\* the standings page of the winter season came with two tables, neither
\* with all of GP, W and L, and the season is stored with its games
C20_Witness ==
    /\ StandingsMiss
    /\ input.season = "winter"
    /\ Len(input.page) = 2
    /\ << "GP" >> \in PageHeaders(1)
    /\ output.result.tag = "ok"
    /\ output.unit # None
    /\ Len(output.unit.data.schedule) > 0
    /\ output.unit.data.standings = << >>

\* the records of the heading strategy and those the text strategy would find
\* on the archives page fetched
PrimaryRecords == ChampionsUnderHeaders(input.page, 1)

FallbackRecords == ChampionsInText(PageText(input.page), 1)

\* C21: fetchArchives runs the text fallback only when the heading strategy
\* produced no championship: when the heading strategy yields a record the
\* result is its records and nothing else, and otherwise the result is what
\* the fallback finds.
C21_FallbackOnlyWhenPrimaryEmpty ==
    input.fetcher = "archives" =>
        /\ output.result.tag = "ok"
        /\ Len(PrimaryRecords) > 0 => output.result.value = PrimaryRecords
        /\ Len(PrimaryRecords) = 0 => output.result.value = FallbackRecords

\* a page where the headings yield records and the text would yield a record
\* the headings do not
C21_Witness ==
    /\ input.fetcher = "archives"
    /\ Len(PrimaryRecords) > 0
    /\ \E k \in 1..Len(FallbackRecords) :
          \A j \in 1..Len(PrimaryRecords) :
              PrimaryRecords[j] # FallbackRecords[k]
    /\ output.result.value = PrimaryRecords

\* element h of the archives page is a heading that names a season
IsSeasonHeading(h) ==
    /\ input.page[h].tag \in HEADING_TAGS
    /\ \E k \in 1..Len(input.page[h].text) : IsSeasonWord(input.page[h].text[k])

\* element k is a champion line under some season heading
IsChampionLine(k) ==
    /\ LineMatch(Trim(input.page[k].text)) # 0
    /\ \E h \in 1..(k - 1) : IsSeasonHeading(h)

\* the season heading nearest before element k
NearestHeading(k) ==
    CHOOSE h \in 1..(k - 1) :
        /\ IsSeasonHeading(h)
        /\ \A g \in (h + 1)..(k - 1) : ~IsSeasonHeading(g)

\* C28: in the heading strategy of fetchArchives every champion line yields
\* exactly one championship record, and its season is one the nearest season
\* heading before the line names.
C28_LineBelongsToNearestHeading ==
    input.fetcher = "archives" =>
        /\ Len(PrimaryRecords)
              = Cardinality({ k \in 1..Len(input.page) : IsChampionLine(k) })
        /\ \A r \in 1..Len(PrimaryRecords) :
              \E k \in 1..Len(input.page) :
                  /\ IsChampionLine(k)
                  /\ Includes(ToLowerCase(input.page[NearestHeading(k)].text),
                              << PrimaryRecords[r].season >>)
                  /\ PrimaryRecords[r].year
                        = ParseYear(Trim(input.page[k].text)
                                       [LineMatch(Trim(input.page[k].text))])

=============================================================================
